---- MODULE Spec2Model ----
(***************************************************************************)
(* TrustByDesign: the risk registry (src/lib/risk_registry.py), the policy *)
(* checker (src/lib/policy_checker.py) and the report builder              *)
(* (src/lib/report_builder.py) as state machines.                          *)
(*                                                                         *)
(* Python values are modelled as follows.                                  *)
(*   - an enumeration member is the record [t |-> <enum name>, v |-> <its  *)
(*     .value>]; a str passed where an enum or a str may stand is          *)
(*     [t |-> "str", v |-> <text>]; None is [t |-> "NoneType", v |-> ""].  *)
(*   - a Risk object is its instance __dict__: a record with the ten       *)
(*     dataclass fields, plus whatever setattr has added to the instance.  *)
(*   - a dict that keeps insertion order (RiskRegistry.risks) is a         *)
(*     sequence of [key, risk] entries; metadata is a sequence of          *)
(*     <<key, value>> pairs; a list is a sequence.                         *)
(*   - a call returns Return(v) or raises: Raise("ValueError"), ...        *)
(*   - a persisted document is the parsed structure yaml.safe_load /       *)
(*     json.load hand back: a record that may hold 'risks', a sequence of  *)
(*     records of strings.                                                 *)
(***************************************************************************)
EXTENDS Integers, Sequences, FiniteSets, TLC

VARIABLES
    risks,      \* RiskRegistry.risks: the id -> Risk dict, in insertion order
    file,       \* the document last written by to_yaml / to_json
    call,       \* the most recent call and its arguments
    ret,        \* its outcome: the returned value or the exception raised
    nops,       \* number of state-changing calls made so far (bounded by MaxOps)
    issues,     \* PolicyChecker.issues
    policy,     \* <<the document of the most recent check_policy call>>, <<>> before the first
    builder,    \* the TrustReportBuilder: its five attributes
    text,       \* the text the uncertainty-tag functions work on, one character per element
    agent       \* the TrustByDesignAgent: user_consent, memory and the audit log's event types

vars == <<risks, file, call, ret, nops, issues, policy, builder, text, agent>>

\* Bounds of the model.
MaxOps == 3

Return(v) == [err |-> "none", val |-> v]
Raise(e) == [err |-> e]

None == [t |-> "NoneType", v |-> ""]
Str(s) == [t |-> "str", v |-> s]
Member(e, s) == [t |-> e, v |-> s]

\* bool(x) for the values list_risks tests: None and "" are falsy, an
\* enumeration member is truthy.
Truthy(x) == IF x.t = "NoneType" THEN FALSE ELSE IF x.t = "str" THEN x.v # "" ELSE TRUE

----------------------------------------------------------------------------
\* The closed vocabularies.

RiskCategoryValues ==
    {"hallucination", "privacy", "bias", "autonomy_overreach", "misuse",
     "data_quality", "security", "performance", "compliance", "other"}

SeverityValues == {"critical", "high", "medium", "low"}

LikelihoodValues == {"very_high", "high", "medium", "low", "very_low"}

RiskStatusValues ==
    {"identified", "analyzing", "mitigating", "monitoring", "closed", "accepted"}

\* A category lookup that takes any string as an open tag.
RiskCategoryOpen(s) == Return(Member("RiskCategory", s))

\* Enum lookup by value: RiskCategory("privacy") is the member, any other
\* string raises ValueError.
RiskCategory(s) ==
    IF s \in RiskCategoryValues THEN Return(Member("RiskCategory", s)) ELSE Raise("ValueError")

Severity(s) ==
    IF s \in SeverityValues THEN Return(Member("Severity", s)) ELSE Raise("ValueError")

Likelihood(s) ==
    IF s \in LikelihoodValues THEN Return(Member("Likelihood", s)) ELSE Raise("ValueError")

RiskStatus(s) ==
    IF s \in RiskStatusValues THEN Return(Member("RiskStatus", s)) ELSE Raise("ValueError")

----------------------------------------------------------------------------
\* Risk

RiskFields ==
    {"id", "category", "title", "description", "severity", "likelihood",
     "mitigations", "owner", "status", "metadata"}

\* Attributes every Risk has through its class: the two methods.
RiskClassAttrs == {"to_dict", "from_dict"}

\* Risk(...): the dataclass constructor.
Risk(id, category, title, description, severity, likelihood, mitigations, owner, status, metadata) ==
    [id |-> id, category |-> category, title |-> title, description |-> description,
     severity |-> severity, likelihood |-> likelihood, mitigations |-> mitigations,
     owner |-> owner, status |-> status, metadata |-> metadata]

\* hasattr(risk, key): an instance attribute or a class attribute.
HasAttr(risk, key) == key \in DOMAIN risk \/ key \in RiskClassAttrs

\* setattr(risk, key, value)
SetAttr(risk, key, value) ==
    IF key \in DOMAIN risk
    THEN [risk EXCEPT ![key] = value]
    ELSE [k \in DOMAIN risk \cup {key} |-> IF k = key THEN value ELSE risk[k]]

\* risk.to_dict(): the enumeration fields by .value, the others as they are.
\* An instance attribute named to_dict shadows the method; the str stored
\* there is not callable.
to_dict(risk) ==
    IF "to_dict" \in DOMAIN risk
    THEN Raise("TypeError")
    ELSE Return([id |-> risk.id, category |-> risk.category.v, title |-> risk.title,
                 description |-> risk.description, severity |-> risk.severity.v,
                 likelihood |-> risk.likelihood.v, mitigations |-> risk.mitigations,
                 owner |-> risk.owner, status |-> risk.status.v,
                 metadata |-> risk.metadata])

\* data.get(key, default)
DictGet(data, key, default) == IF key \in DOMAIN data THEN data[key] ELSE default

\* Risk.from_dict(data): the arguments are evaluated in order; data[k] raises
\* KeyError for a missing key, the enum lookups raise ValueError.
from_dict(data) ==
    IF "id" \notin DOMAIN data THEN Raise("KeyError")
    ELSE IF "category" \notin DOMAIN data THEN Raise("KeyError")
    ELSE IF RiskCategory(data.category).err # "none" THEN Raise("ValueError")
    ELSE IF "title" \notin DOMAIN data THEN Raise("KeyError")
    ELSE IF "description" \notin DOMAIN data THEN Raise("KeyError")
    ELSE IF "severity" \notin DOMAIN data THEN Raise("KeyError")
    ELSE IF Severity(data.severity).err # "none" THEN Raise("ValueError")
    ELSE IF "likelihood" \notin DOMAIN data THEN Raise("KeyError")
    ELSE IF Likelihood(data.likelihood).err # "none" THEN Raise("ValueError")
    ELSE IF RiskStatus(DictGet(data, "status", "identified")).err # "none" THEN Raise("ValueError")
    ELSE Return(Risk(data.id,
                     RiskCategory(data.category).val,
                     data.title,
                     data.description,
                     Severity(data.severity).val,
                     Likelihood(data.likelihood).val,
                     DictGet(data, "mitigations", <<>>),
                     DictGet(data, "owner", ""),
                     RiskStatus(DictGet(data, "status", "identified")).val,
                     DictGet(data, "metadata", <<>>)))

----------------------------------------------------------------------------
\* The insertion-ordered dict RiskRegistry.risks.

DictKeys(d) == {d[i].key : i \in DOMAIN d}

DictIndex(d, k) == CHOOSE i \in DOMAIN d : d[i].key = k

\* A store that appends without looking for the key.
DictSetAppend(d, k, v) == Append(d, [key |-> k, risk |-> v])

\* d[k] = v: an existing key keeps its position, a new key goes last.
DictSet(d, k, v) ==
    IF k \in DictKeys(d)
    THEN [i \in DOMAIN d |-> IF d[i].key = k THEN [key |-> k, risk |-> v] ELSE d[i]]
    ELSE Append(d, [key |-> k, risk |-> v])

\* list(d.values())
DictValues(d) == [i \in DOMAIN d |-> d[i].risk]

----------------------------------------------------------------------------
\* RiskRegistry operations. Each returns [err, reg, val]: the exception raised
\* ("none" when the call returns), the registry after the call, and the value
\* returned.

Outcome(e, reg, v) == [err |-> e, reg |-> reg, val |-> v]

\* x or default, for a list or dict argument.
OrDefault(x, default) == IF x = <<>> THEN default ELSE x

\* add_risk without the duplicate check: the new risk takes the old one's place.
add_risk_overwrite(reg, a) ==
    LET risk == Risk(a.id, a.category, a.title, a.description, a.severity,
                     a.likelihood, OrDefault(a.mitigations, <<>>), a.owner,
                     a.status, OrDefault(a.metadata, <<>>))
    IN  Outcome("none", [i \in 1..(IF a.id \in {reg[j].key : j \in DOMAIN reg}
                                    THEN Len(reg) ELSE Len(reg) + 1) |->
                            IF i <= Len(reg) /\ reg[i].key # a.id
                            THEN reg[i] ELSE [key |-> a.id, risk |-> risk]], risk)

add_risk(reg, a) ==
    IF a.id \in DictKeys(reg)
    THEN Outcome("ValueError", reg, None)
    ELSE LET risk == Risk(a.id, a.category, a.title, a.description, a.severity,
                          a.likelihood, OrDefault(a.mitigations, <<>>), a.owner,
                          a.status, OrDefault(a.metadata, <<>>))
         IN  Outcome("none", DictSet(reg, a.id, risk), risk)

\* The value update_risk stores for key: a str given for an enumeration
\* field goes through the enum lookup, anything else is stored as it is.
Coerce(key, value) ==
    IF key = "category" /\ value.t = "str" THEN RiskCategory(value.v)
    ELSE IF key = "severity" /\ value.t = "str" THEN Severity(value.v)
    ELSE IF key = "likelihood" /\ value.t = "str" THEN Likelihood(value.v)
    ELSE IF key = "status" /\ value.t = "str" THEN RiskStatus(value.v)
    ELSE Return(value)

\* The loop of update_risk over kwargs.items(), from position i on. The risk
\* is changed in place, so what was set before an exception stays set.
RECURSIVE ApplyKwargs(_, _, _)
ApplyKwargs(risk, kwargs, i) ==
    IF i > Len(kwargs) THEN [err |-> "none", risk |-> risk]
    ELSE LET key == kwargs[i][1]
             value == kwargs[i][2]
         IN  IF HasAttr(risk, key)
             THEN IF Coerce(key, value).err # "none"
                  THEN [err |-> Coerce(key, value).err, risk |-> risk]
                  ELSE ApplyKwargs(SetAttr(risk, key, Coerce(key, value).val), kwargs, i + 1)
             ELSE ApplyKwargs(risk, kwargs, i + 1)

\* update_risk that returns None for an unknown id instead of raising.
update_risk_silent(reg, id, kwargs) ==
    IF id \notin DictKeys(reg) THEN Outcome("none", reg, None)
    ELSE LET i == DictIndex(reg, id)
             r == ApplyKwargs(reg[i].risk, kwargs, 1)
         IN  Outcome(r.err, [reg EXCEPT ![i].risk = r.risk],
                     IF r.err = "none" THEN r.risk ELSE None)

update_risk(reg, id, kwargs) ==
    IF id \notin DictKeys(reg) THEN Outcome("KeyError", reg, None)
    ELSE LET i == DictIndex(reg, id)
             r == ApplyKwargs(reg[i].risk, kwargs, 1)
             reg2 == [reg EXCEPT ![i].risk = r.risk]
         IN  Outcome(r.err, reg2, IF r.err = "none" THEN r.risk ELSE None)

get_risk(reg, id) == IF id \in DictKeys(reg) THEN reg[DictIndex(reg, id)].risk ELSE None

\* list_risks: each filter is applied when its argument is truthy.
list_risks(reg, category, severity, status, owner) ==
    LET r0 == DictValues(reg)
        r1 == IF Truthy(category) THEN SelectSeq(r0, LAMBDA r : r.category = category) ELSE r0
        r2 == IF Truthy(severity) THEN SelectSeq(r1, LAMBDA r : r.severity = severity) ELSE r1
        r3 == IF Truthy(status) THEN SelectSeq(r2, LAMBDA r : r.status = status) ELSE r2
        r4 == IF Truthy(owner) THEN SelectSeq(r3, LAMBDA r : r.owner = owner.v) ELSE r3
    IN  r4

export_risks_to_dict(reg) ==
    IF \E i \in DOMAIN reg : to_dict(reg[i].risk).err # "none"
    THEN Raise("TypeError")
    ELSE Return([i \in DOMAIN reg |-> to_dict(reg[i].risk).val])

\* to_yaml / to_json: the document is built before the file is opened, so an
\* exception in export leaves the file as it was.
Dump(reg, old) ==
    IF export_risks_to_dict(reg).err # "none"
    THEN [err |-> export_risks_to_dict(reg).err, file |-> old]
    ELSE [err |-> "none", file |-> [risks |-> export_risks_to_dict(reg).val]]

\* The loop of load_from_yaml / load_from_json over the records, from
\* position i on: each record read is stored before the next is parsed.
\* A load that goes through add_risk's duplicate check.
RECURSIVE LoadRecordsStrict(_, _, _)
LoadRecordsStrict(reg, recs, i) ==
    IF i > Len(recs) THEN Outcome("none", reg, None)
    ELSE LET r == from_dict(recs[i])
         IN  IF r.err # "none" THEN Outcome(r.err, reg, None)
             ELSE IF r.val.id \in DictKeys(reg) THEN Outcome("ValueError", reg, None)
             ELSE LoadRecordsStrict(DictSet(reg, r.val.id, r.val), recs, i + 1)

RECURSIVE LoadRecords(_, _, _)
LoadRecords(reg, recs, i) ==
    IF i > Len(recs) THEN Outcome("none", reg, None)
    ELSE LET r == from_dict(recs[i])
         IN  IF r.err # "none"
             THEN Outcome(r.err, reg, None)
             ELSE LoadRecords(DictSet(reg, r.val.id, r.val), recs, i + 1)

Load(reg, data) == LoadRecords(reg, DictGet(data, "risks", <<>>), 1)

\* A counter that stores 1 instead of adding 1.
CountUpReset(d, k) == [x \in DOMAIN d \cup {k} |-> IF x = k THEN 1 ELSE d[x]]

\* d[k] = d.get(k, 0) + 1 on a counting dict (a function on the keys seen).
CountUp(d, k) ==
    [x \in DOMAIN d \cup {k} |-> IF x = k THEN DictGet(d, k, 0) + 1 ELSE d[x]]

EmptyDict == [x \in {} |-> 0]

\* The loop of get_summary, from position i on.
RECURSIVE SummaryLoop(_, _, _)
SummaryLoop(reg, i, acc) ==
    IF i > Len(reg) THEN acc
    ELSE LET risk == reg[i].risk
         IN  SummaryLoop(reg, i + 1,
                 [acc EXCEPT !.by_severity = CountUp(@, risk.severity.v),
                             !.by_status = CountUp(@, risk.status.v),
                             !.by_category = CountUp(@, risk.category.v)])

get_summary(reg) ==
    SummaryLoop(reg, 1,
        [total |-> Len(reg), by_severity |-> EmptyDict, by_status |-> EmptyDict,
         by_category |-> EmptyDict])

----------------------------------------------------------------------------
\* PolicyChecker. A policy document maps section names to values; a value is
\* modelled by what the checker asks of it:
\*   kind    dict, list, str or int
\*   has     the names x for which "x in value" holds (the keys of a dict, the
\*           items of a list, the substrings of a str)
\*   truthy  bool(value)
\* "x in value" raises TypeError for an int.

DictV(keys) == [kind |-> "dict", has |-> keys, truthy |-> keys # {}]
ListV(items) == [kind |-> "list", has |-> items, truthy |-> items # {}]
StrV(substrings, nonempty) == [kind |-> "str", has |-> substrings, truthy |-> nonempty]
IntV(n) == [kind |-> "int", has |-> {}, truthy |-> n # 0]
NoneV == [kind |-> "NoneType", has |-> {}, truthy |-> FALSE]

PolicyIssue(severity, section, message) ==
    [severity |-> severity, section |-> section, message |-> message]

REQUIRED_SECTIONS ==
    <<"scope", "responsibilities", "data_handling", "incident_response", "monitoring",
      "escalation">>

RECOMMENDED_SECTIONS ==
    <<"risk_assessment", "uncertainty_handling", "audit_trail", "user_consent",
      "model_governance", "deployment_process">>

\* policy.get(section)
PolicyGet(pol, section) == IF section \in DOMAIN pol THEN pol[section] ELSE NoneV

\* A test that reports a section only when it is present and empty.
MissingOrEmptyPresentOnly(pol, section) == section \in DOMAIN pol /\ ~pol[section].truthy

\* section not in policy or not policy[section]
MissingOrEmpty(pol, section) == section \notin DOMAIN pol \/ ~pol[section].truthy

\* The loop of _check_required_sections, from position i on.
RECURSIVE check_required_sections(_, _, _)
check_required_sections(iss, pol, i) ==
    IF i > Len(REQUIRED_SECTIONS) THEN iss
    ELSE check_required_sections(
            IF MissingOrEmpty(pol, REQUIRED_SECTIONS[i])
            THEN Append(iss, PolicyIssue("error", REQUIRED_SECTIONS[i],
                             "Required section '" \o REQUIRED_SECTIONS[i] \o "' is missing or empty"))
            ELSE iss,
            pol, i + 1)

\* The loop of _check_recommended_sections, from position i on.
RECURSIVE check_recommended_sections(_, _, _)
check_recommended_sections(iss, pol, i) ==
    IF i > Len(RECOMMENDED_SECTIONS) THEN iss
    ELSE check_recommended_sections(
            IF MissingOrEmpty(pol, RECOMMENDED_SECTIONS[i])
            THEN Append(iss, PolicyIssue("warning", RECOMMENDED_SECTIONS[i],
                             "Recommended section '" \o RECOMMENDED_SECTIONS[i] \o "' is missing"))
            ELSE iss,
            pol, i + 1)

\* The fixed table of the per-section checks, in the order the code makes
\* them: <<sub-key, severity, message>>.
FieldChecks(section) ==
    CASE section = "scope" ->
            << <<"system_description", "warning", "Missing 'system_description' in scope">>,
               <<"boundaries", "warning", "Missing 'boundaries' definition in scope">> >>
      [] section = "responsibilities" ->
            << <<"system_owner", "info", "Consider defining 'system_owner' role">>,
               <<"incident_responder", "info", "Consider defining 'incident_responder' role">>,
               <<"data_steward", "info", "Consider defining 'data_steward' role">> >>
      [] section = "data_handling" ->
            << <<"retention_policy", "warning", "Missing 'retention_policy'">>,
               <<"privacy_measures", "warning", "Missing 'privacy_measures'">>,
               <<"data_classification", "info", "Consider adding 'data_classification'">> >>
      [] section = "incident_response" ->
            << <<"severity_levels", "warning", "Missing 'severity_levels' definition">>,
               <<"response_procedures", "error", "Missing 'response_procedures'">>,
               <<"escalation_path", "warning", "Missing 'escalation_path'">> >>
      [] section = "monitoring" ->
            << <<"metrics", "warning", "Missing 'metrics' definition">>,
               <<"alerting", "info", "Consider defining 'alerting' mechanisms">> >>

\* The checks of one section on its value, from check i on: nothing for a
\* falsy value; otherwise one issue per sub-key that is not in the value.
\* The first "in" on an int raises.
RECURSIVE check_fields(_, _, _, _)
check_fields(iss, section, value, i) ==
    IF i > Len(FieldChecks(section)) THEN [err |-> "none", issues |-> iss]
    ELSE IF value.kind = "int" THEN [err |-> "TypeError", issues |-> iss]
    ELSE LET check == FieldChecks(section)[i]
         IN  check_fields(
                 IF check[1] \notin value.has
                 THEN Append(iss, PolicyIssue(check[2], section, check[3]))
                 ELSE iss,
                 section, value, i + 1)

\* A section check that puts its findings in front of the list.
check_section_front(iss, section, value) ==
    IF ~value.truthy THEN [err |-> "none", issues |-> iss]
    ELSE LET r == check_fields(<<>>, section, value, 1)
         IN  [err |-> r.err, issues |-> r.issues \o iss]

\* A section check without the early return on a missing or empty section.
check_section_unguarded(iss, section, value) == check_fields(iss, section, value, 1)

\* _check_scope, _check_responsibilities, _check_data_handling,
\* _check_incident_response, _check_monitoring
check_section(iss, section, value) ==
    IF ~value.truthy THEN [err |-> "none", issues |-> iss]
    ELSE check_fields(iss, section, value, 1)

check_scope(iss, scope) == check_section(iss, "scope", scope)

check_responsibilities(iss, responsibilities) ==
    check_section(iss, "responsibilities", responsibilities)

check_data_handling(iss, data_handling) == check_section(iss, "data_handling", data_handling)

check_incident_response(iss, incident_response) ==
    check_section(iss, "incident_response", incident_response)

check_monitoring(iss, monitoring) == check_section(iss, "monitoring", monitoring)

\* The body of check_policy after the list was emptied. An exception in a
\* per-section check ends the run with the issues appended so far in place.
RunChecks(iss, pol) ==
    LET i1 == check_required_sections(iss, pol, 1)
        i2 == check_recommended_sections(i1, pol, 1)
        r1 == check_scope(i2, PolicyGet(pol, "scope"))
        r2 == IF r1.err # "none" THEN r1
              ELSE check_responsibilities(r1.issues, PolicyGet(pol, "responsibilities"))
        r3 == IF r2.err # "none" THEN r2
              ELSE check_data_handling(r2.issues, PolicyGet(pol, "data_handling"))
        r4 == IF r3.err # "none" THEN r3
              ELSE check_incident_response(r3.issues, PolicyGet(pol, "incident_response"))
        r5 == IF r4.err # "none" THEN r4
              ELSE check_monitoring(r4.issues, PolicyGet(pol, "monitoring"))
    IN  r5

\* A check_policy that appends to the issues already held.
check_policy_accumulate(self_issues, pol) == RunChecks(self_issues, pol)

\* check_policy on a checker that holds self_issues: self.issues = [], then
\* the checks.
check_policy(self_issues, pol) == RunChecks(<<>>, pol)

\* A summary that passes only a list without any issue.
policy_get_summary_strict(iss) ==
    LET errors == SelectSeq(iss, LAMBDA i : i.severity = "error")
        warnings == SelectSeq(iss, LAMBDA i : i.severity = "warning")
        infos == SelectSeq(iss, LAMBDA i : i.severity = "info")
    IN  [total_issues |-> Len(iss), errors |-> Len(errors), warnings |-> Len(warnings),
         info |-> Len(infos), passed |-> Len(iss) = 0]

\* A summary that counts the info issues among the warnings.
policy_get_summary_merged(iss) ==
    LET errors == SelectSeq(iss, LAMBDA i : i.severity = "error")
        warnings == SelectSeq(iss, LAMBDA i : i.severity # "error")
        infos == SelectSeq(iss, LAMBDA i : i.severity = "info")
    IN  [total_issues |-> Len(iss), errors |-> Len(errors), warnings |-> Len(warnings),
         info |-> Len(infos), passed |-> Len(errors) = 0]

\* PolicyChecker.get_summary
policy_get_summary(iss) ==
    LET errors == SelectSeq(iss, LAMBDA i : i.severity = "error")
        warnings == SelectSeq(iss, LAMBDA i : i.severity = "warning")
        infos == SelectSeq(iss, LAMBDA i : i.severity = "info")
    IN  [total_issues |-> Len(iss), errors |-> Len(errors), warnings |-> Len(warnings),
         info |-> Len(infos), passed |-> Len(errors) = 0]

----------------------------------------------------------------------------
\* TrustReportBuilder (src/lib/report_builder.py). The builder is the record
\* of its five attributes; risk_registry and policy_checker hold None or a
\* reference to the registry (whose state is risks) or to the checker (whose
\* state is issues). A Markdown report is the sequence of the lines that
\* build_markdown joins with "\n". The pictographs the code puts in front of
\* some texts are left out of the strings.

TheRegistry == [t |-> "RiskRegistry", v |-> "registry"]

TheChecker == [t |-> "PolicyChecker", v |-> "checker"]

\* bool(x) of an attribute that holds None or an object without __bool__ and
\* __len__.
Bound(x) == x # None

\* TrustReportBuilder()
TrustReportBuilder ==
    [risk_registry |-> None, policy_checker |-> None, manual_notes |-> <<>>,
     system_name |-> "AI System", system_version |-> "1.0.0"]

\* The registry and the issue list that the builder's attributes denote when
\* they are read: self.risk_registry and self.policy_checker hold the objects
\* handed in, so what is read is their state at the time of the read. An
\* attribute that held an object of its own would give that object's state.
RegistryOf(self) ==
    IF self.risk_registry.t \in {None.t, TheRegistry.t} THEN risks ELSE self.risk_registry.v

IssuesOf(self) ==
    IF self.policy_checker.t \in {None.t, TheChecker.t} THEN issues ELSE self.policy_checker.v

\* set_risk_registry that keeps a copy of the registry as it is at the call.
set_risk_registry_copy(self, registry) ==
    [self EXCEPT !.risk_registry =
        IF registry = None THEN None ELSE [t |-> "copy of RiskRegistry", v |-> risks]]

set_risk_registry(self, registry) == [self EXCEPT !.risk_registry = registry]

set_policy_checker(self, checker) == [self EXCEPT !.policy_checker = checker]

add_note(self, note) == [self EXCEPT !.manual_notes = Append(@, note)]

\* A set_system_info that also clears the notes.
set_system_info_reset(self, name, version) ==
    [self EXCEPT !.system_name = name, !.system_version = version, !.manual_notes = <<>>]

set_system_info(self, name, version) ==
    [self EXCEPT !.system_name = name, !.system_version = version]

\* datetime.now() is a number of seconds after 2024-01-01 00:00:00.
Strftime(now) == "2024-01-01 00:00:0" \o ToString(now)

Isoformat(now) == "2024-01-01T00:00:0" \o ToString(now)

\* s.replace('_', ' ') on the category values.
ReplaceUnderscore(s) ==
    CASE s = "autonomy_overreach" -> "autonomy overreach"
      [] s = "data_quality" -> "data quality"
      [] OTHER -> s

\* s.title() on the severity values and on the category values without
\* underscores.
StrTitle(s) ==
    CASE s = "critical" -> "Critical"
      [] s = "high" -> "High"
      [] s = "medium" -> "Medium"
      [] s = "low" -> "Low"
      [] s = "hallucination" -> "Hallucination"
      [] s = "privacy" -> "Privacy"
      [] s = "bias" -> "Bias"
      [] s = "autonomy overreach" -> "Autonomy Overreach"
      [] s = "misuse" -> "Misuse"
      [] s = "data quality" -> "Data Quality"
      [] s = "security" -> "Security"
      [] s = "performance" -> "Performance"
      [] s = "compliance" -> "Compliance"
      [] s = "other" -> "Other"

\* The keys of a table of get_summary in the order the loop first stored
\* them: the order of .items().
RECURSIVE FirstSeen(_, _, _, _)
FirstSeen(reg, field, i, acc) ==
    IF i > Len(reg) THEN acc
    ELSE FirstSeen(reg, field, i + 1,
             IF \E j \in DOMAIN acc : acc[j] = reg[i].risk[field].v
             THEN acc
             ELSE Append(acc, reg[i].risk[field].v))

\* table.items() for the table get_summary counted over field.
DictItems(reg, field, table) ==
    LET keys == FirstSeen(reg, field, 1, <<>>)
    IN  [i \in DOMAIN keys |-> <<keys[i], table[keys[i]]>>]

\* The strings that sorted() compares in the model, in the order of str's <.
SortedStrings == <<"R1", "R10", "R2", "critical", "high", "low", "medium">>

StrRank(s) == CHOOSE i \in DOMAIN SortedStrings : SortedStrings[i] = s

\* A sort key that is the id alone.
SortKeyLessById(a, b) == StrRank(a.id) < StrRank(b.id)

\* (a.severity.value, a.id) < (b.severity.value, b.id)
SortKeyLess(a, b) ==
    \/ StrRank(a.severity.v) < StrRank(b.severity.v)
    \/ a.severity.v = b.severity.v /\ StrRank(a.id) < StrRank(b.id)

\* sorted(rs, key=lambda r: (r.severity.value, r.id)): r goes after the
\* elements that are not greater than it (the sort is stable).
RECURSIVE SortedRisks(_)
SortedRisks(rs) ==
    IF rs = <<>> THEN <<>>
    ELSE LET rest == SortedRisks(SubSeq(rs, 1, Len(rs) - 1))
             r == rs[Len(rs)]
             before == SelectSeq(rest, LAMBDA x : ~SortKeyLess(r, x))
             after == SelectSeq(rest, LAMBDA x : SortKeyLess(r, x))
         IN  before \o <<r>> \o after

\* _build_executive_summary
build_executive_summary(self, reg, iss) ==
    LET risk_summary == get_summary(reg)
        policy_summary == policy_get_summary(iss)
        risk_lines ==
            IF Bound(self.risk_registry)
            THEN <<"**Total Risks Identified**: " \o ToString(risk_summary.total),
                   "- Critical: " \o ToString(DictGet(risk_summary.by_severity, "critical", 0)),
                   "- High: " \o ToString(DictGet(risk_summary.by_severity, "high", 0)),
                   "">>
            ELSE <<>>
        policy_lines ==
            IF Bound(self.policy_checker) /\ iss # <<>>
            THEN <<"**Policy Compliance**: "
                       \o (IF policy_summary.passed THEN "Passed" ELSE "Failed"),
                   "- Errors: " \o ToString(policy_summary.errors),
                   "- Warnings: " \o ToString(policy_summary.warnings),
                   "">>
            ELSE <<>>
    IN  risk_lines \o policy_lines

\* One row of the table of high priority risks.
RiskRow(risk) ==
    "| " \o risk.id \o " | " \o risk.title \o " | " \o risk.severity.v \o " | "
        \o risk.status.v \o " | " \o (IF risk.owner # "" THEN risk.owner ELSE "Unassigned")
        \o " |"

\* _build_risk_section
build_risk_section(self, reg) ==
    IF ~Bound(self.risk_registry) THEN <<>>
    ELSE LET risk_summary == get_summary(reg)
             by_severity == DictItems(reg, "severity", risk_summary.by_severity)
             by_category == DictItems(reg, "category", risk_summary.by_category)
             critical_risks == list_risks(reg, None, None, None, None)
             high_priority ==
                 SelectSeq(critical_risks, LAMBDA r : r.severity.v \in {"critical", "high"})
             rows == SortedRisks(high_priority)
         IN  <<"### Risk Summary", "", "Total Risks: " \o ToString(risk_summary.total), "",
               "**By Severity:**">>
             \o [i \in DOMAIN by_severity |->
                    "- " \o StrTitle(by_severity[i][1]) \o ": " \o ToString(by_severity[i][2])]
             \o <<"", "**By Category:**">>
             \o [i \in DOMAIN by_category |->
                    "- " \o StrTitle(ReplaceUnderscore(by_category[i][1])) \o ": "
                         \o ToString(by_category[i][2])]
             \o <<"">>
             \o (IF high_priority # <<>>
                 THEN <<"### High Priority Risks", "",
                        "| ID | Title | Severity | Status | Owner |", "|---|---|---|---|---|">>
                      \o [i \in DOMAIN rows |-> RiskRow(rows[i])]
                      \o <<"">>
                 ELSE <<>>)

\* One bullet of the policy section.
IssueLine(issue) == "- **" \o issue.section \o "**: " \o issue.message

\* _build_policy_section
build_policy_section(self, iss) ==
    IF ~Bound(self.policy_checker) \/ iss = <<>>
    THEN <<"No policy compliance issues found.">>
    ELSE LET summary == policy_get_summary(iss)
             errors == SelectSeq(iss, LAMBDA i : i.severity = "error")
             warnings == SelectSeq(iss, LAMBDA i : i.severity = "warning")
         IN  <<"**Status**: "
                   \o (IF ~summary.passed THEN "Failed" ELSE "Passed with warnings"),
               "">>
             \o (IF errors # <<>>
                 THEN <<"### Errors", "">> \o [i \in DOMAIN errors |-> IssueLine(errors[i])]
                      \o <<"">>
                 ELSE <<>>)
             \o (IF warnings # <<>>
                 THEN <<"### Warnings", "">>
                      \o [i \in DOMAIN warnings |-> IssueLine(warnings[i])] \o <<"">>
                 ELSE <<>>)

\* _build_recommendations that asks for a policy review from five warnings on.
build_recommendations_from_five(self, reg, iss) ==
    LET risk_summary == get_summary(reg)
        critical_count == DictGet(risk_summary.by_severity, "critical", 0)
        identified_risks == SelectSeq(DictValues(reg), LAMBDA r : r.status.v = "identified")
        summary == policy_get_summary(iss)
        risk_based ==
            IF Bound(self.risk_registry)
            THEN (IF critical_count > 0
                  THEN <<"**URGENT**: Address " \o ToString(critical_count)
                             \o " critical risk(s) before deployment">>
                  ELSE <<>>)
                 \o (IF identified_risks # <<>>
                     THEN <<"Move " \o ToString(Len(identified_risks))
                                \o " identified risk(s) to active mitigation">>
                     ELSE <<>>)
            ELSE <<>>
        policy_based ==
            IF Bound(self.policy_checker) /\ iss # <<>>
            THEN (IF summary.errors > 0
                  THEN <<"Fix " \o ToString(summary.errors)
                             \o " policy error(s) before proceeding">>
                  ELSE <<>>)
                 \o (IF summary.warnings >= 5
                     THEN <<"High number of policy warnings - consider comprehensive policy review">>
                     ELSE <<>>)
            ELSE <<>>
        recommendations ==
            IF risk_based \o policy_based = <<>>
            THEN <<"No urgent recommendations at this time",
                   "Continue monitoring and regular risk reviews">>
            ELSE risk_based \o policy_based
    IN  [i \in DOMAIN recommendations |-> "- " \o recommendations[i]]

\* _build_recommendations
build_recommendations(self, reg, iss) ==
    LET risk_summary == get_summary(reg)
        critical_count == DictGet(risk_summary.by_severity, "critical", 0)
        identified_risks == SelectSeq(DictValues(reg), LAMBDA r : r.status.v = "identified")
        summary == policy_get_summary(iss)
        risk_based ==
            IF Bound(self.risk_registry)
            THEN (IF critical_count > 0
                  THEN <<"**URGENT**: Address " \o ToString(critical_count)
                             \o " critical risk(s) before deployment">>
                  ELSE <<>>)
                 \o (IF identified_risks # <<>>
                     THEN <<"Move " \o ToString(Len(identified_risks))
                                \o " identified risk(s) to active mitigation">>
                     ELSE <<>>)
            ELSE <<>>
        policy_based ==
            IF Bound(self.policy_checker) /\ iss # <<>>
            THEN (IF summary.errors > 0
                  THEN <<"Fix " \o ToString(summary.errors)
                             \o " policy error(s) before proceeding">>
                  ELSE <<>>)
                 \o (IF summary.warnings > 5
                     THEN <<"High number of policy warnings - consider comprehensive policy review">>
                     ELSE <<>>)
            ELSE <<>>
        recommendations ==
            IF risk_based \o policy_based = <<>>
            THEN <<"No urgent recommendations at this time",
                   "Continue monitoring and regular risk reviews">>
            ELSE risk_based \o policy_based
    IN  [i \in DOMAIN recommendations |-> "- " \o recommendations[i]]

\* A header that also dates the version line.
HeaderDated(self, now) ==
    <<"# Trust Report: " \o self.system_name,
      "**Version**: " \o self.system_version \o " (" \o Strftime(now) \o ")",
      "**Generated**: " \o Strftime(now),
      "", "---", "">>

\* The parts of build_markdown, in the order the code appends them.
Header(self, now) ==
    <<"# Trust Report: " \o self.system_name,
      "**Version**: " \o self.system_version,
      "**Generated**: " \o Strftime(now),
      "", "---", "">>

ExecutiveSummarySection(self, reg, iss) ==
    <<"## Executive Summary", "">> \o build_executive_summary(self, reg, iss) \o <<"">>

RiskAssessmentSection(self, reg) ==
    IF Bound(self.risk_registry)
    THEN <<"## Risk Assessment", "">> \o build_risk_section(self, reg) \o <<"">>
    ELSE <<>>

\* A policy part that is rendered for every bound checker.
PolicyComplianceSectionAlways(self, iss) ==
    IF Bound(self.policy_checker)
    THEN <<"## Policy Compliance", "">> \o build_policy_section(self, iss) \o <<"">>
    ELSE <<>>

PolicyComplianceSection(self, iss) ==
    IF Bound(self.policy_checker) /\ iss # <<>>
    THEN <<"## Policy Compliance", "">> \o build_policy_section(self, iss) \o <<"">>
    ELSE <<>>

AdditionalNotesSection(self) ==
    IF self.manual_notes # <<>>
    THEN <<"## Additional Notes", "">>
         \o [i \in DOMAIN self.manual_notes |-> "- " \o self.manual_notes[i]] \o <<"">>
    ELSE <<>>

RecommendationsSection(self, reg, iss) ==
    <<"## Recommendations", "">> \o build_recommendations(self, reg, iss) \o <<"">>

Footer == <<"---", "", "*This report was generated automatically by TrustByDesign toolkit.*">>

\* A build_markdown that puts the notes in front of the risk assessment.
build_markdown_notes_first(self, reg, iss, now) ==
    Header(self, now)
    \o ExecutiveSummarySection(self, reg, iss)
    \o AdditionalNotesSection(self)
    \o RiskAssessmentSection(self, reg)
    \o PolicyComplianceSection(self, iss)
    \o RecommendationsSection(self, reg, iss)
    \o Footer

\* build_markdown on a builder whose registry holds reg and whose checker
\* holds iss (neither is read when the attribute is None).
build_markdown(self, reg, iss, now) ==
    Header(self, now)
    \o ExecutiveSummarySection(self, reg, iss)
    \o RiskAssessmentSection(self, reg)
    \o PolicyComplianceSection(self, iss)
    \o AdditionalNotesSection(self)
    \o RecommendationsSection(self, reg, iss)
    \o Footer

\* PolicyIssue.to_dict
issue_to_dict(issue) ==
    [severity |-> issue.severity, section |-> issue.section, message |-> issue.message]

\* build_dict: 'notes' is the builder's own list; an exception of
\* export_risks_to_dict goes to the caller.
build_dict(self, reg, iss, now) ==
    IF Bound(self.risk_registry) /\ export_risks_to_dict(reg).err # "none"
    THEN Raise(export_risks_to_dict(reg).err)
    ELSE Return(
        [system |-> [name |-> self.system_name, version |-> self.system_version],
         generated_at |-> Isoformat(now),
         risks |-> IF Bound(self.risk_registry)
                   THEN [summary |-> get_summary(reg),
                         details |-> export_risks_to_dict(reg).val]
                   ELSE None,
         policy |-> IF Bound(self.policy_checker) /\ iss # <<>>
                    THEN [summary |-> policy_get_summary(iss),
                          issues |-> [i \in DOMAIN iss |-> issue_to_dict(iss[i])]]
                    ELSE None,
         notes |-> self.manual_notes])

----------------------------------------------------------------------------
\* The uncertainty tagger (uncertainty_tags.py).  A str is the sequence of
\* its characters, each character a one-character string.

TAG_FACT == <<"[", "F", "A", "C", "T", "]">>

TAG_ESTIMATE == <<"[", "E", "S", "T", "I", "M", "A", "T", "E", "]">>

TAG_UNKNOWN == <<"[", "U", "N", "K", "N", "O", "W", "N", "]">>

TAG_ASSUMPTION == <<"[", "A", "S", "S", "U", "M", "P", "T", "I", "O", "N", "]">>

TAG_SPECULATION == <<"[", "S", "P", "E", "C", "U", "L", "A", "T", "I", "O", "N", "]">>

ALL_TAGS == <<TAG_FACT, TAG_ESTIMATE, TAG_UNKNOWN, TAG_ASSUMPTION, TAG_SPECULATION>>

\* The characters \s of a pattern matches and str.strip() removes.
Whitespace == {" ", "\t", "\n"}

\* f"{TAG} {text}"
tag_fact(t) == TAG_FACT \o <<" ">> \o t

tag_estimate(t) == TAG_ESTIMATE \o <<" ">> \o t

tag_unknown(t) == TAG_UNKNOWN \o <<" ">> \o t

tag_assumption(t) == TAG_ASSUMPTION \o <<" ">> \o t

tag_speculation(t) == TAG_SPECULATION \o <<" ">> \o t

\* s[i:].startswith(sub)
StartsWithAt(s, i, sub) ==
    /\ i + Len(sub) - 1 <= Len(s)
    /\ SubSeq(s, i, i + Len(sub) - 1) = sub

\* str.replace(sub, ''): the non-overlapping occurrences of sub, found from
\* the left, are removed in one pass; StrRemove(s, i, sub) is the result of
\* the pass from position i on.
RECURSIVE StrRemove(_, _, _)
StrRemove(s, i, sub) ==
    IF i > Len(s) THEN <<>>
    ELSE IF StartsWithAt(s, i, sub) THEN StrRemove(s, i + Len(sub), sub)
    ELSE <<s[i]>> \o StrRemove(s, i + 1, sub)

\* str.count(sub): the number of non-overlapping occurrences from the left,
\* counted from position i on.
RECURSIVE StrCount(_, _, _)
StrCount(s, i, sub) ==
    IF i > Len(s) THEN 0
    ELSE IF StartsWithAt(s, i, sub) THEN 1 + StrCount(s, i + Len(sub), sub)
    ELSE StrCount(s, i + 1, sub)

\* The length of the longest run of characters of (or, with inside = FALSE,
\* not of) the set chars that starts at position i.
RECURSIVE RunLength(_, _, _, _)
RunLength(s, i, chars, inside) ==
    IF i > Len(s) \/ ((s[i] \in chars) # inside) THEN 0
    ELSE 1 + RunLength(s, i + 1, chars, inside)

\* re.sub(r'\s+', ' ', s), from position i on.
RECURSIVE CollapseWhitespace(_, _)
CollapseWhitespace(s, i) ==
    IF i > Len(s) THEN <<>>
    ELSE IF s[i] \in Whitespace
         THEN <<" ">> \o CollapseWhitespace(s, i + RunLength(s, i, Whitespace, TRUE))
         ELSE <<s[i]>> \o CollapseWhitespace(s, i + 1)

\* str.strip()
StrStrip(s) ==
    LET lead == RunLength(s, 1, Whitespace, TRUE)
        last == IF \E i \in 1..Len(s) : s[i] \notin Whitespace
                THEN CHOOSE i \in 1..Len(s) :
                        /\ s[i] \notin Whitespace
                        /\ \A j \in (i + 1)..Len(s) : s[j] \in Whitespace
                ELSE 0
    IN  SubSeq(s, lead + 1, last)

\* The loop of strip_tags: one replace per marker, in the order of ALL_TAGS,
\* each on the result of the one before.
RECURSIVE RemoveTags(_, _)
RemoveTags(s, k) ==
    IF k > Len(ALL_TAGS) THEN s
    ELSE RemoveTags(StrRemove(s, 1, ALL_TAGS[k]), k + 1)

strip_tags_unstripped(t) == CollapseWhitespace(RemoveTags(t, 1), 1)

strip_tags(t) == StrStrip(CollapseWhitespace(RemoveTags(t, 1), 1))

\* count_tags: text.count(tag) for each marker.
count_tags(t) == [k \in DOMAIN ALL_TAGS |-> StrCount(t, 1, ALL_TAGS[k])]

\* The marker that starts at position i: 0 when there is none.
MarkerAt(s, i) ==
    IF \E k \in DOMAIN ALL_TAGS : StartsWithAt(s, i, ALL_TAGS[k])
    THEN CHOOSE k \in DOMAIN ALL_TAGS : StartsWithAt(s, i, ALL_TAGS[k])
    ELSE 0

\* re.findall of (\[(?:FACT|...)\])\s*([^\[]+) from position i.  After a
\* marker \s* takes the whitespace and [^\[]+ the characters up to the next
\* "["; when nothing but whitespace precedes that "[" (or the end), \s* gives
\* its last character back to [^\[]+; with no character at all there is no
\* match at i.  The search goes on after the match.
RECURSIVE FindAllFrom(_, _)
FindAllFrom(s, i) ==
    IF i > Len(s) THEN <<>>
    ELSE LET k == MarkerAt(s, i)
             j == i + (IF k = 0 THEN 0 ELSE Len(ALL_TAGS[k]))
             w == RunLength(s, j, Whitespace, TRUE)
             n == RunLength(s, j + w, {"["}, FALSE)
         IN  IF k = 0 \/ w + n = 0 THEN FindAllFrom(s, i + 1)
             ELSE IF n > 0
                  THEN << <<ALL_TAGS[k], SubSeq(s, j + w, j + w + n - 1)>> >>
                       \o FindAllFrom(s, j + w + n)
                  ELSE << <<ALL_TAGS[k], SubSeq(s, j + w - 1, j + w - 1)>> >>
                       \o FindAllFrom(s, j + w)

detect_tags(t) ==
    LET matches == FindAllFrom(t, 1)
    IN  [m \in DOMAIN matches |->
            [tag |-> matches[m][1], content |-> StrStrip(matches[m][2])]]

----------------------------------------------------------------------------
\* The example Level 2 agent (example_level2_agent.py).  memory is the dict
\* key -> stored value in insertion order, a sequence of <<key, value>>;
\* audit_log is the sequence of the event types logged so far.

TrustByDesignAgent == [memory |-> <<>>, audit_log |-> <<>>, user_consent |-> FALSE]

Log(self, event_type) == [self EXCEPT !.audit_log = Append(@, event_type)]

MemoryKeys(memory) == {memory[i][1] : i \in DOMAIN memory}

\* self.memory[key] = {...}: the value of a stored key is replaced in place,
\* a new key is appended.
MemorySet(memory, key, value) ==
    IF key \in MemoryKeys(memory)
    THEN [i \in DOMAIN memory |-> IF memory[i][1] = key THEN <<key, value>> ELSE memory[i]]
    ELSE Append(memory, <<key, value>>)

\* del self.memory[key]
MemoryDel(memory, key) == SelectSeq(memory, LAMBDA e : e[1] # key)

grant_consent(self) ==
    [agent |-> Log([self EXCEPT !.user_consent = TRUE], "consent_granted"),
     out |-> Return(None)]

revoke_consent_keeps(self) ==
    [agent |-> Log([self EXCEPT !.user_consent = FALSE], "consent_revoked"),
     out |-> Return(None)]

revoke_consent(self) ==
    [agent |-> Log([self EXCEPT !.user_consent = FALSE, !.memory = <<>>], "consent_revoked"),
     out |-> Return(None)]

remember(self, key, value) ==
    IF ~self.user_consent
    THEN [agent |-> self, out |-> Return([success |-> FALSE])]
    ELSE [agent |-> Log([self EXCEPT !.memory = MemorySet(@, key, value)], "memory_store"),
          out |-> Return([success |-> TRUE])]

recall(self, key) ==
    IF key \in MemoryKeys(self.memory)
    THEN [agent |-> Log(self, "memory_retrieve"),
          out |-> Return(Str(self.memory[CHOOSE i \in DOMAIN self.memory :
                                                self.memory[i][1] = key][2]))]
    ELSE [agent |-> self, out |-> Return(None)]

forget(self, key) ==
    IF key \in MemoryKeys(self.memory)
    THEN [agent |-> Log([self EXCEPT !.memory = MemoryDel(@, key)], "memory_delete"),
          out |-> Return(TRUE)]
    ELSE [agent |-> self, out |-> Return(FALSE)]

forget_all(self) ==
    [agent |-> Log([self EXCEPT !.memory = <<>>], "memory_delete_all"),
     out |-> Return(None)]

----------------------------------------------------------------------------
\* Inputs of the registry calls.

Ids == {"R1", "R2"}

ArgsA(id) ==
    [id |-> id, category |-> Member("RiskCategory", "hallucination"), title |-> "T1",
     description |-> "D1", severity |-> Member("Severity", "critical"),
     likelihood |-> Member("Likelihood", "high"), mitigations |-> <<"m1", "m2">>,
     owner |-> "alice", status |-> Member("RiskStatus", "identified"),
     metadata |-> << <<"source", "audit">> >>]

ArgsB(id) ==
    [id |-> id, category |-> Member("RiskCategory", "privacy"), title |-> "T2",
     description |-> "D2", severity |-> Member("Severity", "high"),
     likelihood |-> Member("Likelihood", "low"), mitigations |-> <<>>,
     owner |-> "", status |-> Member("RiskStatus", "mitigating"),
     metadata |-> <<>>]

AddInputs == {ArgsA(id) : id \in Ids} \cup {ArgsB(id) : id \in Ids}

\* kwargs of update_risk, in the order the caller wrote them. Python binds a
\* keyword named id to the parameter id, so kwargs never holds that key.
KwargsInputs ==
    { << <<"title", "T3">>, <<"severity", Member("Severity", "critical")>> >>,
      << <<"severity", Str("high")>>, <<"owner", "bob">>, <<"priority", "p1">> >>,
      << <<"category", Str("privacy")>>, <<"likelihood", Str("high")>>,
         <<"status", Str("closed")>>, <<"mitigations", <<"m3">>>> >>,
      << <<"to_dict", "x">> >>,
      << <<"category", Str("weather")>> >>,
      << <<"severity", Str("extreme")>> >>,
      << <<"likelihood", Str("certain")>> >>,
      << <<"owner", "bob">>, <<"status", Str("done")>>, <<"title", "T3">> >> }

\* Records of persisted documents.
RecA(id) ==
    [id |-> id, category |-> "hallucination", title |-> "T1", description |-> "D1",
     severity |-> "critical", likelihood |-> "high", mitigations |-> <<"m1", "m2">>,
     owner |-> "alice", status |-> "identified", metadata |-> << <<"source", "audit">> >>]

RecMinimal(id) ==
    [id |-> id, category |-> "security", title |-> "T4", description |-> "D4",
     severity |-> "low", likelihood |-> "very_low"]

RecBad(id, field, value) == [RecA(id) EXCEPT ![field] = value]

RecNoTitle(id) == [k \in (DOMAIN RecA(id)) \ {"title"} |-> RecA(id)[k]]

\* Documents found on disk besides the one the registry wrote itself.
Docs ==
    { [risks |-> <<>>],
      [version |-> "1"],
      [risks |-> <<RecA("R1"), RecMinimal("R2")>>],
      [risks |-> <<RecMinimal("R1"), RecA("R2"), RecA("R1")>>],
      [risks |-> <<RecMinimal("R2")>>],
      [risks |-> <<RecMinimal("R1"), RecBad("R2", "category", "weather")>>],
      [risks |-> <<RecBad("R2", "severity", "extreme"), RecA("R1")>>],
      [risks |-> <<RecA("R2"), RecBad("R1", "likelihood", "certain")>>],
      [risks |-> <<RecBad("R1", "status", "done")>>],
      [risks |-> <<RecMinimal("R2"), RecNoTitle("R1")>>] }

NoFile == [missing |-> TRUE]

Filters(c, s, st, o) == [category |-> c, severity |-> s, status |-> st, owner |-> o]

FilterInputs ==
    { Filters(None, None, None, None),
      Filters(Member("RiskCategory", "privacy"), None, None, None),
      Filters(None, Member("Severity", "critical"), None, None),
      Filters(None, None, Member("RiskStatus", "identified"), None),
      Filters(None, None, None, Str("alice")),
      Filters(None, None, None, Str("")),
      Filters(Member("RiskCategory", "hallucination"), Member("Severity", "critical"),
              Member("RiskStatus", "identified"), Str("alice")),
      Filters(Member("RiskCategory", "security"), Member("Severity", "low"), None, Str("")),
      Filters(Member("RiskCategory", "hallucination"), None,
              Member("RiskStatus", "mitigating"), None) }

----------------------------------------------------------------------------
\* The state machine of one RiskRegistry.

Init ==
    /\ risks = <<>>
    /\ file = NoFile
    /\ call = [op |-> "init"]
    /\ ret = Return(None)
    /\ nops = 0
    /\ issues = <<>>
    /\ policy = <<>>
    /\ builder = TrustReportBuilder
    /\ text = <<>>
    /\ agent = TrustByDesignAgent

AddRisk ==
    \E a \in AddInputs :
        /\ nops < MaxOps
        /\ risks' = add_risk(risks, a).reg
        /\ call' = [op |-> "add_risk", id |-> a.id, args |-> a]
        /\ ret' = [err |-> add_risk(risks, a).err, val |-> add_risk(risks, a).val]
        /\ nops' = nops + 1
        /\ UNCHANGED <<file, issues, policy, builder, text, agent>>

UpdateRiskOn(inputs) ==
    \E id \in Ids, kwargs \in inputs :
        /\ nops < MaxOps
        /\ risks' = update_risk(risks, id, kwargs).reg
        /\ call' = [op |-> "update_risk", id |-> id, kwargs |-> kwargs]
        /\ ret' = [err |-> update_risk(risks, id, kwargs).err,
                   val |-> update_risk(risks, id, kwargs).val]
        /\ nops' = nops + 1
        /\ UNCHANGED <<file, issues, policy, builder, text, agent>>

UpdateRisk == UpdateRiskOn(KwargsInputs)

GetRisk ==
    \E id \in Ids :
        /\ call' = [op |-> "get_risk", id |-> id]
        /\ ret' = Return(get_risk(risks, id))
        /\ UNCHANGED <<risks, file, nops, issues, policy, builder, text, agent>>

ListRisks ==
    \E f \in FilterInputs :
        /\ call' = [op |-> "list_risks", filters |-> f]
        /\ ret' = Return(list_risks(risks, f.category, f.severity, f.status, f.owner))
        /\ UNCHANGED <<risks, file, nops, issues, policy, builder, text, agent>>

GetSummary ==
    /\ call' = [op |-> "get_summary"]
    /\ ret' = Return(get_summary(risks))
    /\ UNCHANGED <<risks, file, nops, issues, policy, builder, text, agent>>

ToFile(op) ==
    /\ nops < MaxOps
    /\ file' = Dump(risks, file).file
    /\ call' = [op |-> op]
    /\ ret' = [err |-> Dump(risks, file).err, val |-> None]
    /\ nops' = nops + 1
    /\ UNCHANGED <<risks, issues, policy, builder, text, agent>>

ToYaml == ToFile("to_yaml")

ToJson == ToFile("to_json")

\* A load reads the document the registry wrote, when there is one, or
\* another document on disk; a path with no file raises FileNotFoundError
\* before anything is read.
LoadFrom(op) ==
    \/ \E data \in Docs \cup ({file} \ {NoFile}) :
        /\ nops < MaxOps
        /\ risks' = Load(risks, data).reg
        /\ call' = [op |-> op, data |-> data]
        /\ ret' = [err |-> Load(risks, data).err, val |-> None]
        /\ nops' = nops + 1
        /\ UNCHANGED <<file, issues, policy, builder, text, agent>>
    \/ /\ nops < MaxOps
       /\ file = NoFile
       /\ call' = [op |-> op, data |-> NoFile]
       /\ ret' = [err |-> "FileNotFoundError", val |-> None]
       /\ nops' = nops + 1
       /\ UNCHANGED <<risks, file, issues, policy, builder, text, agent>>

LoadFromYaml == LoadFrom("load_from_yaml")

LoadFromJson == LoadFrom("load_from_json")

\* The state machine of one PolicyChecker.

Absent == [kind |-> "absent", has |-> {}, truthy |-> FALSE]

\* The document that gives each section its chosen value, without the
\* sections chosen absent.
MakePolicy(f) == [s \in {x \in DOMAIN f : f[x] # Absent} |-> f[s]]

SubKeys(section) == {FieldChecks(section)[i][1] : i \in DOMAIN FieldChecks(section)}

Full(section) == DictV(SubKeys(section))

Text == StrV({}, TRUE)

ScopeChoices ==
    {Absent, DictV({}), DictV({"system_description"}), Full("scope"), Text, IntV(5),
     ListV({"boundaries"})}

IncidentChoices ==
    {Absent, DictV({"severity_levels", "escalation_path"}), Full("incident_response"), IntV(0)}

MonitoringChoices == {Absent, DictV({"metrics"}), Full("monitoring")}

Recommended(present) ==
    [s \in {RECOMMENDED_SECTIONS[i] : i \in 1..6} |-> IF s \in present THEN Text ELSE Absent]

ResponsibilityChoices == {Absent, DictV({"system_owner"}), Full("responsibilities"), ListV({})}

DataChoices == {Absent, DictV({"retention_policy"}), Full("data_handling"), IntV(1)}

EscalationChoices == {Absent, Text, StrV({}, FALSE)}

Sections(scope, resp, data, incident, monitoring, escalation) ==
    [s \in {REQUIRED_SECTIONS[i] : i \in 1..6} |->
        CASE s = "scope" -> scope
          [] s = "responsibilities" -> resp
          [] s = "data_handling" -> data
          [] s = "incident_response" -> incident
          [] s = "monitoring" -> monitoring
          [] s = "escalation" -> escalation]

Policies ==
    {MakePolicy(Sections(sc, Full("responsibilities"), Full("data_handling"), ir, mo, Text)
                @@ Recommended({RECOMMENDED_SECTIONS[i] : i \in 1..6})) :
        sc \in ScopeChoices, ir \in IncidentChoices, mo \in MonitoringChoices}
    \cup
    {MakePolicy(Sections(Full("scope"), re, da, Full("incident_response"), Full("monitoring"), es)
                @@ Recommended({})) :
        re \in ResponsibilityChoices, da \in DataChoices, es \in EscalationChoices}
    \cup
    {MakePolicy(Sections(Absent, Absent, Absent, Absent, Absent, Absent)
                @@ Recommended(present)) :
        present \in {{}, {"risk_assessment"}, {"audit_trail", "user_consent"}}}

\* check_policy returns the list self.issues itself, not a copy.
SelfIssues == [t |-> "list", v |-> "self.issues"]

CheckPolicyOn(documents) ==
    \E pol \in documents :
        LET r == check_policy(issues, pol)
        IN  /\ nops < MaxOps
            /\ issues' = r.issues
            /\ policy' = <<pol>>
            /\ call' = [op |-> "check_policy"]
            /\ ret' = [err |-> r.err, val |-> SelfIssues]
            /\ nops' = nops + 1
            /\ UNCHANGED <<risks, file, builder, text, agent>>

CheckPolicy == CheckPolicyOn(Policies)

PolicySummary ==
    /\ call' = [op |-> "policy_get_summary"]
    /\ ret' = Return(policy_get_summary(issues))
    /\ UNCHANGED <<risks, file, nops, issues, policy, builder, text, agent>>

NextChecker ==
    \/ CheckPolicy
    \/ PolicySummary

SpecChecker == Init /\ [][NextChecker]_vars

Next ==
    \/ AddRisk
    \/ UpdateRisk
    \/ GetRisk
    \/ ListRisks
    \/ GetSummary
    \/ ToYaml
    \/ ToJson
    \/ LoadFromYaml
    \/ LoadFromJson

Spec == Init /\ [][Next]_vars

----------------------------------------------------------------------------
\* The state machine of one TrustReportBuilder next to the registry and the
\* checker it reports on.

\* Registries as the registry calls leave them.
RegistryStates ==
    { <<>>,
      add_risk(<<>>, ArgsA("R1")).reg,
      add_risk(add_risk(<<>>, ArgsB("R2")).reg, ArgsA("R1")).reg,
      Load(<<>>, [risks |-> <<RecMinimal("R1"), RecA("R2")>>]).reg,
      add_risk(add_risk(add_risk(<<>>, ArgsB("R1")).reg, ArgsA("R2")).reg, ArgsA("R10")).reg,
      update_risk(add_risk(<<>>, ArgsB("R1")).reg, "R1", << <<"to_dict", "x">> >>).reg }

\* Documents a checker was run on before the report is built.
BuilderPolicies ==
    { MakePolicy(Sections(Absent, Absent, Absent, Absent, Absent, Absent) @@ Recommended({})),
      MakePolicy(Sections(Full("scope"), Full("responsibilities"), Full("data_handling"),
                          Full("incident_response"), Full("monitoring"), Text)
                 @@ Recommended({})),
      MakePolicy(Sections(Full("scope"), Full("responsibilities"), Full("data_handling"),
                          Full("incident_response"), Full("monitoring"), Text)
                 @@ Recommended({RECOMMENDED_SECTIONS[i] : i \in 1..6})),
      MakePolicy(Sections(DictV({"system_description"}), Full("responsibilities"),
                          Full("data_handling"),
                          DictV({"severity_levels", "escalation_path"}), Full("monitoring"), Text)
                 @@ Recommended({RECOMMENDED_SECTIONS[i] : i \in 1..6})),
      MakePolicy(Sections(Full("scope"), Full("responsibilities"), Full("data_handling"),
                          Full("incident_response"), Full("monitoring"), Text)
                 @@ Recommended({RECOMMENDED_SECTIONS[1]})) }

Notes == {"System deployed successfully", "Monitoring shows good performance"}

SystemInfos == {<<"TestSystem", "2.0.0">>}

\* Values of datetime.now() at a render.
Clock == {1, 2}

InitBuilder ==
    /\ risks \in RegistryStates
    /\ \/ issues = <<>> /\ policy = <<>>
       \/ \E pol \in BuilderPolicies :
             issues = check_policy(<<>>, pol).issues /\ policy = <<pol>>
    /\ file = NoFile
    /\ call = [op |-> "init"]
    /\ ret = Return(None)
    /\ nops = 0
    /\ builder = TrustReportBuilder
    /\ text = <<>>
    /\ agent = TrustByDesignAgent

SetRiskRegistry ==
    \E registry \in {TheRegistry, None} :
        /\ nops < MaxOps
        /\ builder' = set_risk_registry(builder, registry)
        /\ call' = [op |-> "set_risk_registry", registry |-> registry]
        /\ ret' = Return(None)
        /\ nops' = nops + 1
        /\ UNCHANGED <<risks, file, issues, policy, text, agent>>

SetPolicyChecker ==
    \E checker \in {TheChecker, None} :
        /\ nops < MaxOps
        /\ builder' = set_policy_checker(builder, checker)
        /\ call' = [op |-> "set_policy_checker", checker |-> checker]
        /\ ret' = Return(None)
        /\ nops' = nops + 1
        /\ UNCHANGED <<risks, file, issues, policy, text, agent>>

AddNote ==
    \E note \in Notes :
        /\ nops < MaxOps
        /\ builder' = add_note(builder, note)
        /\ call' = [op |-> "add_note", note |-> note]
        /\ ret' = Return(None)
        /\ nops' = nops + 1
        /\ UNCHANGED <<risks, file, issues, policy, text, agent>>

SetSystemInfo ==
    \E info \in SystemInfos :
        /\ nops < MaxOps
        /\ builder' = set_system_info(builder, info[1], info[2])
        /\ call' = [op |-> "set_system_info", name |-> info[1], version |-> info[2]]
        /\ ret' = Return(None)
        /\ nops' = nops + 1
        /\ UNCHANGED <<risks, file, issues, policy, text, agent>>

\* The renders read the registry and the checker the builder refers to.
BuildMarkdown ==
    \E now \in Clock :
        /\ call' = [op |-> "build_markdown", now |-> now]
        /\ ret' = Return(build_markdown(builder, RegistryOf(builder), IssuesOf(builder), now))
        /\ UNCHANGED <<risks, file, nops, issues, policy, builder, text, agent>>

BuildDict ==
    \E now \in Clock :
        /\ call' = [op |-> "build_dict", now |-> now]
        /\ ret' = build_dict(builder, RegistryOf(builder), IssuesOf(builder), now)
        /\ UNCHANGED <<risks, file, nops, issues, policy, builder, text, agent>>

NextBuilder ==
    \/ SetRiskRegistry
    \/ SetPolicyChecker
    \/ AddNote
    \/ SetSystemInfo
    \/ BuildMarkdown
    \/ BuildDict
    \/ AddRisk

SpecBuilder == InitBuilder /\ [][NextBuilder]_vars

\* A builder next to a registry and a checker that go on being used while
\* the builder holds them.

LiveKwargs ==
    { << <<"title", "T3">>, <<"severity", Member("Severity", "critical")>> >>,
      << <<"severity", Str("high")>>, <<"owner", "bob">>, <<"priority", "p1">> >> }

NextLive ==
    \/ SetRiskRegistry
    \/ SetPolicyChecker
    \/ AddRisk
    \/ UpdateRiskOn(LiveKwargs)
    \/ CheckPolicyOn(BuilderPolicies)
    \/ BuildMarkdown

SpecLive == Init /\ [][NextLive]_vars

----------------------------------------------------------------------------
\* The uncertainty tagger applied to a text.  The tagging functions and
\* strip_tags hand their result on as the next text; detect_tags and
\* count_tags only read it.

Texts ==
    { <<>>,
      <<"a", " ", "b">>,
      <<" ", " ", "a", " ", "\n", " ", "b", " ">>,
      <<"A", "[", "0", "]">>,
      TAG_FACT \o <<" ", "a">>,
      TAG_FACT \o <<" ", "a", ".", " ">> \o TAG_ESTIMATE \o <<" ", "b", ".">>,
      TAG_FACT \o <<" ", "A", "[", "0", "]", " ", "b">>,
      TAG_FACT \o <<" ", "a">> \o TAG_ESTIMATE \o <<" ", "b">>,
      TAG_FACT \o TAG_ESTIMATE \o <<" ", "b">>,
      TAG_FACT \o <<" ", "\n">> \o TAG_ESTIMATE \o <<" ", "x">>,
      TAG_FACT \o <<" ", " ">>,
      <<"a", " ">> \o TAG_FACT,
      TAG_UNKNOWN \o <<" ", "u", " ">> \o TAG_ASSUMPTION \o <<" ", "s", " ">>
          \o TAG_SPECULATION \o <<" ", "p">>,
      <<"[", "F", "A">> \o TAG_FACT \o <<"C", "T", "]">>,
      <<"[", "F", "A">> \o TAG_ESTIMATE \o <<"C", "T", "]", " ", "x">>,
      <<"[", "E", "S", "T", "I">> \o TAG_FACT \o <<"M", "A", "T", "E", "]", " ", "x">> }

InitTags ==
    /\ text \in Texts
    /\ risks = <<>>
    /\ file = NoFile
    /\ call = [op |-> "init"]
    /\ ret = Return(None)
    /\ nops = 0
    /\ issues = <<>>
    /\ policy = <<>>
    /\ builder = TrustReportBuilder
    /\ agent = TrustByDesignAgent

\* A call of a str -> str function on the current text.
Rewrite(op, result) ==
    /\ nops < MaxOps
    /\ call' = [op |-> op, text |-> text]
    /\ ret' = Return(result)
    /\ text' = result
    /\ nops' = nops + 1
    /\ UNCHANGED <<risks, file, issues, policy, builder, agent>>

\* A call that only reads the current text.
Scan(op, result) ==
    /\ call' = [op |-> op, text |-> text]
    /\ ret' = Return(result)
    /\ UNCHANGED <<risks, file, nops, issues, policy, builder, text, agent>>

NextTags ==
    \/ Rewrite("tag_fact", tag_fact(text))
    \/ Rewrite("tag_estimate", tag_estimate(text))
    \/ Rewrite("tag_unknown", tag_unknown(text))
    \/ Rewrite("tag_assumption", tag_assumption(text))
    \/ Rewrite("tag_speculation", tag_speculation(text))
    \/ Rewrite("strip_tags", strip_tags(text))
    \/ Scan("detect_tags", detect_tags(text))
    \/ Scan("count_tags", count_tags(text))

SpecTags == InitTags /\ [][NextTags]_vars

----------------------------------------------------------------------------
\* The state machine of one TrustByDesignAgent.

Keys == {"name", "lang"}

Values == {"Alice", "Python"}

\* A call on the agent: its new state and its outcome.
AgentCall(c, r) ==
    /\ nops < MaxOps
    /\ call' = c
    /\ ret' = r.out
    /\ agent' = r.agent
    /\ nops' = nops + 1
    /\ UNCHANGED <<risks, file, issues, policy, builder, text>>

NextAgent ==
    \/ AgentCall([op |-> "grant_consent"], grant_consent(agent))
    \/ AgentCall([op |-> "revoke_consent"], revoke_consent(agent))
    \/ \E key \in Keys, value \in Values :
          AgentCall([op |-> "remember", key |-> key, value |-> value],
                    remember(agent, key, value))
    \/ \E key \in Keys : AgentCall([op |-> "recall", key |-> key], recall(agent, key))
    \/ \E key \in Keys : AgentCall([op |-> "forget", key |-> key], forget(agent, key))
    \/ AgentCall([op |-> "forget_all"], forget_all(agent))

SpecAgent == Init /\ [][NextAgent]_vars

----------------------------------------------------------------------------
\* Properties of the registry.

LoadOps == {"load_from_yaml", "load_from_json"}

RiskOf(reg, id) == reg[DictIndex(reg, id)].risk

\* C1: add_risk with an id that is already present raises ValueError and
\* leaves the registry exactly as it was: the same entries, in the same
\* order, each with every field as before.
C1_DuplicateAddRejected ==
    [][(call'.op = "add_risk" /\ call'.id \in DictKeys(risks))
         => (ret'.err = "ValueError" /\ risks' = risks)]_vars

\* A duplicate add was refused although its arguments differ from the risk
\* stored under that id.
C1_Witness ==
    /\ call.op = "add_risk"
    /\ ret.err = "ValueError"
    /\ call.id \in DictKeys(risks)
    /\ RiskOf(risks, call.id).title # call.args.title
    /\ Len(risks) = 2

\* C2: update_risk with an id that is not present raises KeyError and leaves
\* the registry unchanged, whatever the keyword arguments.
C2_UpdateUnknownIdRejected ==
    [][(call'.op = "update_risk" /\ call'.id \notin DictKeys(risks))
         => (ret'.err = "KeyError" /\ risks' = risks)]_vars

\* An update of an absent id was refused on a registry that holds another risk.
C2_Witness ==
    /\ call.op = "update_risk"
    /\ ret.err = "KeyError"
    /\ call.id \notin DictKeys(risks)
    /\ risks # <<>>

\* C4: in every reachable state, every risk is stored under a key equal to
\* its own id and no key occurs twice (so no two stored risks share an id).
C4_KeyIsId ==
    /\ \A i \in DOMAIN risks : risks[i].key = risks[i].risk.id
    /\ \A i, j \in DOMAIN risks : risks[i].key = risks[j].key => i = j

\* Two risks are stored, after a load that replaced one of them.
C4_Witness ==
    /\ Len(risks) = 2
    /\ call.op \in LoadOps
    /\ ret.err = "none"
    /\ nops = MaxOps
    /\ "risks" \in DOMAIN call.data
    /\ Len(call.data.risks) = 3

\* The ids of the records of a document, and the last record with a given id.
DocIds(recs) == {recs[i].id : i \in DOMAIN recs}

LastWithId(recs, id) ==
    recs[CHOOSE i \in DOMAIN recs :
            /\ recs[i].id = id
            /\ \A j \in DOMAIN recs : recs[j].id = id => j <= i]

\* C5: a load of a document whose records are all well-formed merges by id and
\* raises nothing: afterwards the registry holds exactly the ids it held plus
\* the ids of the document; an id of the document maps to the risk of the last
\* record with that id; every other id keeps its risk; the ids already
\* present keep their positions.
C5_LoadMergesById ==
    [][(/\ call'.op \in LoadOps
        /\ "risks" \in DOMAIN call'.data
        /\ \A i \in DOMAIN call'.data.risks : from_dict(call'.data.risks[i]).err = "none")
         => LET recs == call'.data.risks
            IN  /\ ret'.err = "none"
                /\ DictKeys(risks') = DictKeys(risks) \cup DocIds(recs)
                /\ \A i \in DOMAIN risks : risks'[i].key = risks[i].key
                /\ \A i \in DOMAIN risks' :
                      risks'[i].risk =
                          IF risks'[i].key \in DocIds(recs)
                          THEN from_dict(LastWithId(recs, risks'[i].key)).val
                          ELSE risks[i].risk
       ]_vars

\* A load of the one-record document for R2 into a registry that held R2
\* before R1: R2 was replaced in place, R1 was kept.
C5_Witness ==
    /\ call.op \in LoadOps
    /\ ret.err = "none"
    /\ call.data = [risks |-> <<RecMinimal("R2")>>]
    /\ Len(risks) = 2
    /\ risks[1].key = "R2"
    /\ risks[1].risk.title = "T4"
    /\ risks[2].key = "R1"

EnumFields == {"category", "severity", "likelihood", "status"}

EnumName(f) ==
    CASE f = "category" -> "RiskCategory"
      [] f = "severity" -> "Severity"
      [] f = "likelihood" -> "Likelihood"
      [] f = "status" -> "RiskStatus"

Vocabulary(f) ==
    CASE f = "category" -> RiskCategoryValues
      [] f = "severity" -> SeverityValues
      [] f = "likelihood" -> LikelihoodValues
      [] f = "status" -> RiskStatusValues

KwKeys(kwargs) == {kwargs[i][1] : i \in DOMAIN kwargs}

KwValue(kwargs, key) == kwargs[CHOOSE i \in DOMAIN kwargs : kwargs[i][1] = key][2]

\* The value a caller means by key=value: the member, for a string naming one.
Given(key, value) ==
    IF key \in EnumFields /\ value.t = "str" THEN Member(EnumName(key), value.v) ELSE value

\* C3: a successful update_risk changes exactly the named recognized fields of
\* the one risk to the given values: every other field of that risk and
\* every other entry of the registry is as before, and a name that is not a
\* risk field is ignored, so the risk has the ten fields and nothing else.
C3_UpdateChangesOnlyNamedFields ==
    [][(call'.op = "update_risk" /\ ret'.err = "none")
         => LET kw == call'.kwargs
                i == DictIndex(risks, call'.id)
            IN  /\ Len(risks') = Len(risks)
                /\ \A j \in DOMAIN risks : j # i => risks'[j] = risks[j]
                /\ risks'[i].key = risks[i].key
                /\ DOMAIN risks'[i].risk = DOMAIN risks[i].risk
                /\ \A f \in RiskFields :
                      risks'[i].risk[f] =
                          IF f \in KwKeys(kw) THEN Given(f, KwValue(kw, f))
                          ELSE risks[i].risk[f]
                /\ ret'.val = risks'[i].risk
       ]_vars

\* C6: every reachable registry can be persisted, and loading what was
\* written into a fresh registry gives the same ids in the same order with
\* equal values of all ten fields.
C6_RoundTrip ==
    LET d == Dump(risks, NoFile)
    IN  /\ d.err = "none"
        /\ LET l == Load(<<>>, d.file)
           IN  /\ l.err = "none"
               /\ Len(l.reg) = Len(risks)
               /\ \A i \in DOMAIN risks :
                     /\ l.reg[i].key = risks[i].key
                     /\ \A f \in RiskFields : l.reg[i].risk[f] = risks[i].risk[f]

\* A risk matches the filters when it agrees with every filter that was passed.
Matches(r, f) ==
    /\ f.category # None => r.category = f.category
    /\ f.severity # None => r.severity = f.severity
    /\ f.status # None => r.status = f.status
    /\ f.owner # None => r.owner = f.owner.v

\* C7: list_risks returns, in insertion order, exactly the stored risks that
\* match every filter passed, a filter passed as the empty owner string
\* included; a filter left out matches everything.
C7_ListRisksAppliesEverySuppliedFilter ==
    call.op = "list_risks"
        => ret.val = SelectSeq(DictValues(risks), LAMBDA r : Matches(r, call.filters))

\* The number of stored risks whose field has the value v, and the table of
\* these numbers over the values that occur.
CountOf(reg, field, v) == Cardinality({i \in DOMAIN reg : reg[i].risk[field].v = v})

TableOf(reg, field) ==
    [v \in {reg[i].risk[field].v : i \in DOMAIN reg} |-> CountOf(reg, field, v)]

RECURSIVE SumOver(_, _)
SumOver(f, S) ==
    IF S = {} THEN 0
    ELSE LET x == CHOOSE y \in S : TRUE IN f[x] + SumOver(f, S \ {x})

\* C8: what get_summary returns reflects the registry as it is: total is the
\* number of stored risks; by_severity, by_status and by_category map each
\* value that occurs to the number of stored risks having it, and hold no
\* other value; the counts of each table add up to total.
C8_SummaryReflectsRegistry ==
    call.op = "get_summary"
        => LET s == ret.val
           IN  /\ s.total = Len(risks)
               /\ s.by_severity = TableOf(risks, "severity")
               /\ s.by_status = TableOf(risks, "status")
               /\ s.by_category = TableOf(risks, "category")
               /\ SumOver(s.by_severity, DOMAIN s.by_severity) = s.total
               /\ SumOver(s.by_status, DOMAIN s.by_status) = s.total
               /\ SumOver(s.by_category, DOMAIN s.by_category) = s.total

\* A summary of two risks of one category and two severities.
C8_Witness ==
    /\ call.op = "get_summary"
    /\ ret.val.total = 2
    /\ \E c \in DOMAIN ret.val.by_category : ret.val.by_category[c] = 2
    /\ Cardinality(DOMAIN ret.val.by_severity) = 2

BadKwargs(kwargs) ==
    \E i \in DOMAIN kwargs :
        /\ kwargs[i][1] \in EnumFields
        /\ kwargs[i][2].t = "str"
        /\ kwargs[i][2].v \notin Vocabulary(kwargs[i][1])

BadRecord(rec) == \E f \in EnumFields \cap DOMAIN rec : rec[f] \notin Vocabulary(f)

WellTyped(risk) ==
    \A f \in EnumFields : risk[f].t = EnumName(f) /\ risk[f].v \in Vocabulary(f)

\* C9: a string outside the vocabulary is always rejected. update_risk given
\* one for category, severity, likelihood or status raises (ValueError when
\* the id is present, KeyError when it is not); a load of a document with a
\* record that has one, in any of the four fields, raises. A valid string
\* becomes the member of that field's enumeration: after a successful update
\* the field holds the member the string names, and every stored risk holds
\* members of the right enumerations in all four fields.
C9_InvalidEnumRejected ==
    [][/\ (call'.op = "update_risk" /\ BadKwargs(call'.kwargs))
            => /\ ret'.err \in {"ValueError", "KeyError"}
               /\ call'.id \in DictKeys(risks) => ret'.err = "ValueError"
       /\ (call'.op \in LoadOps /\ "risks" \in DOMAIN call'.data
              /\ \E i \in DOMAIN call'.data.risks : BadRecord(call'.data.risks[i]))
            => ret'.err \in {"ValueError", "KeyError"}
       /\ (call'.op = "update_risk" /\ ret'.err = "none")
            => \A i \in DOMAIN call'.kwargs :
                  LET key == call'.kwargs[i][1]
                      value == call'.kwargs[i][2]
                  IN  (key \in EnumFields /\ value.t = "str")
                        => RiskOf(risks', call'.id)[key] = Member(EnumName(key), value.v)
       /\ \A i \in DOMAIN risks' : WellTyped(risks'[i].risk)
      ]_vars

\* A load stopped with ValueError at a record whose category is no category.
C9_Witness ==
    /\ call.op \in LoadOps
    /\ ret.err = "ValueError"
    /\ "risks" \in DOMAIN call.data
    /\ \E i \in DOMAIN call.data.risks :
          /\ call.data.risks[i].category \notin RiskCategoryValues
          /\ \A f \in EnumFields \ {"category"} :
                f \in DOMAIN call.data.risks[i] => call.data.risks[i][f] \in Vocabulary(f)
          /\ \A j \in 1..(i - 1) : from_dict(call.data.risks[j]).err = "none"

----------------------------------------------------------------------------
\* Properties of the policy checker.

\* C10: results never accumulate. After any sequence of check_policy calls
\* the checker's issue list is the list a new checker (whose list is empty)
\* produces for the document of the most recent call alone, and get_summary
\* reports the summary of that list.
C10_NoAccumulation ==
    policy # <<>>
        => /\ issues = check_policy(<<>>, policy[1]).issues
           /\ call.op = "policy_get_summary"
                => ret.val = policy_get_summary(check_policy(<<>>, policy[1]).issues)

\* The last of several check_policy calls found nothing to report; every
\* other document of the inputs leaves at least one issue.
C10_Witness ==
    /\ nops = MaxOps
    /\ call.op = "check_policy"
    /\ policy # <<>>
    /\ issues = <<>>

\* The positions of a list that hold an issue of a section, or of a severity.
PositionsOfSection(iss, section) == {i \in DOMAIN iss : iss[i].section = section}

PositionsOfSeverity(iss, severity) == {i \in DOMAIN iss : iss[i].severity = severity}

RequiredNames == {REQUIRED_SECTIONS[i] : i \in DOMAIN REQUIRED_SECTIONS}

RecommendedNames == {RECOMMENDED_SECTIONS[i] : i \in DOMAIN RECOMMENDED_SECTIONS}

\* C11: check_policy on the empty document {} raises nothing and leaves
\* exactly twelve issues: for each of the six required sections exactly one
\* issue, an error, and for each of the six recommended sections exactly one
\* issue, a warning; six errors in total and no other issue.
C11_EmptyPolicy ==
    [][(call'.op = "check_policy" /\ DOMAIN policy'[1] = {})
         => /\ ret'.err = "none"
            /\ Cardinality(RequiredNames) = 6
            /\ Cardinality(RecommendedNames) = 6
            /\ \A s \in RequiredNames :
                  /\ Cardinality(PositionsOfSection(issues', s)) = 1
                  /\ PositionsOfSection(issues', s) \subseteq PositionsOfSeverity(issues', "error")
            /\ \A s \in RecommendedNames :
                  /\ Cardinality(PositionsOfSection(issues', s)) = 1
                  /\ PositionsOfSection(issues', s) \subseteq PositionsOfSeverity(issues', "warning")
            /\ Cardinality(PositionsOfSeverity(issues', "error")) = 6
            /\ Len(issues') = 12
       ]_vars

\* The empty document was checked by a checker that held the issues of
\* another document.
C11_Witness ==
    /\ call.op = "check_policy"
    /\ nops > 1
    /\ policy # <<>>
    /\ DOMAIN policy[1] = {}
    /\ Len(issues) = 12

\* The three kinds of issue, told apart by what the check that makes them
\* writes.
IsRequiredIssue(i) ==
    \E s \in RequiredNames :
        i = PolicyIssue("error", s, "Required section '" \o s \o "' is missing or empty")

IsRecommendedIssue(i) ==
    \E s \in RecommendedNames :
        i = PolicyIssue("warning", s, "Recommended section '" \o s \o "' is missing")

CheckedSections == {"scope", "responsibilities", "data_handling", "incident_response", "monitoring"}

IsFieldIssue(i) ==
    \E s \in CheckedSections :
        \E k \in DOMAIN FieldChecks(s) :
            i = PolicyIssue(FieldChecks(s)[k][2], s, FieldChecks(s)[k][3])

\* C12: in the issue list of every state, each issue is of exactly one of
\* the three kinds, every required-section issue stands before every
\* recommended-section issue, and every recommended-section issue stands
\* before every per-section field-check issue.
C12_IssueOrder ==
    /\ \A a \in DOMAIN issues :
          \/ IsRequiredIssue(issues[a]) /\ ~IsRecommendedIssue(issues[a]) /\ ~IsFieldIssue(issues[a])
          \/ ~IsRequiredIssue(issues[a]) /\ IsRecommendedIssue(issues[a]) /\ ~IsFieldIssue(issues[a])
          \/ ~IsRequiredIssue(issues[a]) /\ ~IsRecommendedIssue(issues[a]) /\ IsFieldIssue(issues[a])
    /\ \A a, b \in DOMAIN issues :
          /\ (IsRequiredIssue(issues[a]) /\ IsRecommendedIssue(issues[b])) => a < b
          /\ (IsRecommendedIssue(issues[a]) /\ IsFieldIssue(issues[b])) => a < b
          /\ (IsRequiredIssue(issues[a]) /\ IsFieldIssue(issues[b])) => a < b

\* A list with issues of all three kinds, the field-check issues from two
\* sections.
C12_Witness ==
    /\ call.op = "check_policy"
    /\ ret.err = "none"
    /\ \E a, b, c, d \in DOMAIN issues :
          /\ IsRequiredIssue(issues[a])
          /\ IsRecommendedIssue(issues[b])
          /\ IsFieldIssue(issues[c])
          /\ IsFieldIssue(issues[d])
          /\ issues[c].section # issues[d].section

\* A document with the six required sections present and non-empty and every
\* sub-key of the five checked sections present in a mapping.
FullyPopulated(pol) ==
    /\ \A s \in RequiredNames : s \in DOMAIN pol /\ pol[s].truthy
    /\ \A s \in CheckedSections :
          /\ pol[s].kind = "dict"
          /\ \A k \in DOMAIN FieldChecks(s) : FieldChecks(s)[k][1] \in pol[s].has

\* C13: after check_policy on a fully populated document the call has raised
\* nothing, the issue list holds no error, and get_summary reports errors = 0
\* and passed, whichever recommended sections the document lacks and however
\* many warnings remain.
C13_FullyPopulatedPasses ==
    (policy # <<>> /\ FullyPopulated(policy[1]))
        => /\ PositionsOfSeverity(issues, "error") = {}
           /\ call.op = "check_policy" => ret.err = "none"
           /\ call.op = "policy_get_summary"
                => (ret.val.passed /\ ret.val.errors = 0 /\ ret.val = policy_get_summary(issues))

\* get_summary after a fully populated document without any recommended
\* section: six warnings and passed.
C13_Witness ==
    /\ call.op = "policy_get_summary"
    /\ policy # <<>>
    /\ FullyPopulated(policy[1])
    /\ DOMAIN policy[1] = RequiredNames
    /\ ret.val.warnings = 6
    /\ ret.val.passed

\* C14: in every state, get_summary of the stored issues has total_issues =
\* errors + warnings + info, each of the three counts is the number of stored
\* issues of that severity, and passed is true exactly when errors is 0; a
\* get_summary call returns that summary.
C14_SummaryCounts ==
    LET s == policy_get_summary(issues)
    IN  /\ s.total_issues = s.errors + s.warnings + s.info
        /\ s.total_issues = Len(issues)
        /\ s.errors = Cardinality(PositionsOfSeverity(issues, "error"))
        /\ s.warnings = Cardinality(PositionsOfSeverity(issues, "warning"))
        /\ s.info = Cardinality(PositionsOfSeverity(issues, "info"))
        /\ s.passed <=> (s.errors = 0)
        /\ call.op = "policy_get_summary" => ret.val = s

\* get_summary of a list with warnings and info issues and no error: passed.
C14_Witness ==
    /\ call.op = "policy_get_summary"
    /\ ret.val.errors = 0
    /\ ret.val.warnings > 0
    /\ ret.val.info > 0
    /\ ret.val.passed

\* C15: when one of the five checked sections is absent from the last
\* checked document, or present with an empty value, the only issue with that
\* section name is the required-section error.
C15_NoFieldChecksForMissingSection ==
    policy # <<>>
        => \A s \in CheckedSections :
              (s \notin DOMAIN policy[1] \/ ~policy[1][s].truthy)
                  => \E i \in DOMAIN issues :
                        /\ PositionsOfSection(issues, s) = {i}
                        /\ issues[i] = PolicyIssue("error", s,
                                "Required section '" \o s \o "' is missing or empty")

\* A document with one checked section present and empty, another absent,
\* and a third one checked field by field.
C15_Witness ==
    /\ call.op = "check_policy"
    /\ ret.err = "none"
    /\ policy # <<>>
    /\ \E s, t, u \in CheckedSections :
          /\ s \in DOMAIN policy[1] /\ ~policy[1][s].truthy
          /\ t \notin DOMAIN policy[1]
          /\ \E i \in PositionsOfSection(issues, u) : IsFieldIssue(issues[i])

\* C16: check_policy raises nothing for a document that maps string keys to
\* scalars, mappings or sequences of strings; every document of the inputs is
\* of that kind.
C16_NeverRaises ==
    [][call'.op = "check_policy" => ret'.err = "none"]_vars

----------------------------------------------------------------------------
\* Properties of the report builder.

\* The positions of a line in a Markdown report.
LinesAt(md, line) == {i \in DOMAIN md : md[i] = line}

SectionHeaders ==
    <<"## Executive Summary", "## Risk Assessment", "## Policy Compliance",
      "## Additional Notes", "## Recommendations">>

HeaderSet == {SectionHeaders[i] : i \in DOMAIN SectionHeaders}

\* The header at position i is followed by an empty line and then by a line
\* that is neither empty nor the next header.
HasBody(md, i) ==
    /\ i + 2 <= Len(md)
    /\ md[i + 1] = ""
    /\ md[i + 2] \notin HeaderSet \cup {"", "---"}

FixedSectionOrder(md) ==
    /\ Len(md) > 3
    /\ md[1] = "# Trust Report: " \o builder.system_name
    /\ md[2] = "**Version**: " \o builder.system_version
    /\ \E now \in Clock : md[3] = "**Generated**: " \o Strftime(now)
    /\ \A a \in DOMAIN SectionHeaders :
          /\ Cardinality(LinesAt(md, SectionHeaders[a])) <= 1
          /\ \A i \in LinesAt(md, SectionHeaders[a]) : 3 < i /\ i < Len(md)
          /\ \A b \in DOMAIN SectionHeaders :
                a < b => \A i \in LinesAt(md, SectionHeaders[a]),
                            j \in LinesAt(md, SectionHeaders[b]) : i < j
    /\ LinesAt(md, "## Executive Summary") # {}
    /\ LinesAt(md, "## Recommendations") # {}
    /\ md[Len(md)] = "*This report was generated automatically by TrustByDesign toolkit.*"

\* The case of the end-to-end scenario: a render by a builder with a registry
\* that holds a critical risk, a checker that holds an error, and a note.
CompleteReportCase ==
    /\ call.op = "build_markdown"
    /\ builder.risk_registry # None
    /\ \E i \in DOMAIN risks : risks[i].risk.severity.v = "critical"
    /\ builder.policy_checker # None
    /\ PositionsOfSeverity(issues, "error") # {}
    /\ builder.manual_notes # <<>>

\* The lines that show the id of a critical risk, the critical count, the
\* failed policy status, and a note.
CriticalCount == DictGet(get_summary(risks).by_severity, "critical", 0)

IdLines == {RiskRow(risks[i].risk) : i \in {j \in DOMAIN risks : risks[j].risk.severity.v = "critical"}}

CountLines ==
    {"- Critical: " \o ToString(CriticalCount),
     "- **URGENT**: Address " \o ToString(CriticalCount) \o " critical risk(s) before deployment"}

FailedLines == {"**Policy Compliance**: Failed", "**Status**: Failed"}

NoteLines == {"- " \o builder.manual_notes[i] : i \in DOMAIN builder.manual_notes}

\* C18 as stated: every render has the fixed section order, and in the
\* end-to-end case a line with the risk id is followed by a line with the
\* critical count, that one by a line with the failed status, and that one
\* by a line with the note text.
C18_ItemsInStatedOrder ==
    call.op = "build_markdown"
        => /\ FixedSectionOrder(ret.val)
           /\ CompleteReportCase
                => \E i, c, f, n \in DOMAIN ret.val :
                      /\ i < c /\ c < f /\ f < n
                      /\ ret.val[i] \in IdLines
                      /\ ret.val[c] \in CountLines
                      /\ ret.val[f] \in FailedLines
                      /\ ret.val[n] \in NoteLines

\* The position of a header that occurs once.
HeaderAt(md, h) == CHOOSE i \in DOMAIN md : md[i] = h

\* C18 (amended): every render has the fixed section order; in the
\* end-to-end case the critical count and the failed status stand in the
\* Executive Summary, the critical count again and after it the row with the
\* risk id in Risk Assessment, the failed status again in Policy Compliance,
\* the note text in Additional Notes, and after the row with the risk id the
\* critical count occurs only in Recommendations.
C18_SectionOrder ==
    call.op = "build_markdown"
        => /\ FixedSectionOrder(ret.val)
           /\ CompleteReportCase
                => LET md == ret.val
                       es == HeaderAt(md, "## Executive Summary")
                       ra == HeaderAt(md, "## Risk Assessment")
                       pc == HeaderAt(md, "## Policy Compliance")
                       an == HeaderAt(md, "## Additional Notes")
                       re == HeaderAt(md, "## Recommendations")
                   IN  /\ \E c, f \in (es + 1)..(ra - 1) :
                             /\ c < f
                             /\ md[c] = "- Critical: " \o ToString(CriticalCount)
                             /\ md[f] = "**Policy Compliance**: Failed"
                       /\ \E c, i \in (ra + 1)..(pc - 1) :
                             /\ c < i
                             /\ md[c] = "- Critical: " \o ToString(CriticalCount)
                             /\ md[i] \in IdLines
                       /\ \E f \in (pc + 1)..(an - 1) : md[f] = "**Status**: Failed"
                       /\ \A n \in DOMAIN md : md[n] \in NoteLines => (an < n /\ n < re)
                       /\ \A l \in NoteLines : LinesAt(md, l) # {}
                       /\ \A i, c \in DOMAIN md :
                             (md[i] \in IdLines /\ md[c] \in CountLines /\ i < c) => re < c

\* A render in the end-to-end case with two rows in the table of high
\* priority risks.
C18_Witness ==
    /\ CompleteReportCase
    /\ Len(risks) = 2
    /\ \E i \in DOMAIN risks : risks[i].risk.severity.v = "high"
    /\ LinesAt(ret.val, "## Policy Compliance") # {}
    /\ LinesAt(ret.val, "## Additional Notes") # {}

BuilderOps ==
    {"set_risk_registry", "set_policy_checker", "add_note", "set_system_info",
     "build_markdown", "build_dict"}

RenderOps == {"build_markdown", "build_dict"}

\* The attributes of the builder an operation may change.
MayChange(op) ==
    CASE op = "set_risk_registry" -> {"risk_registry"}
      [] op = "set_policy_checker" -> {"policy_checker"}
      [] op = "add_note" -> {"manual_notes"}
      [] op = "set_system_info" -> {"system_name", "system_version"}
      [] op \in RenderOps -> {}

\* C19: a step of any of the six builder operations leaves the registry's
\* risks, the checker's issue list, the checked document and the written
\* file as they were; it changes no attribute of the builder other than the
\* one the operation is about (the bound registry, the bound checker, the
\* notes, the system name and version); build_markdown and build_dict change
\* no attribute at all.
C19_BuilderFrame ==
    [][call'.op \in BuilderOps
         => /\ risks' = risks
            /\ issues' = issues
            /\ policy' = policy
            /\ file' = file
            /\ DOMAIN builder' = DOMAIN builder
            /\ \A a \in DOMAIN builder : a \notin MayChange(call'.op) => builder'[a] = builder[a]
            /\ call'.op \in RenderOps => builder' = builder
       ]_vars

\* build_dict returned a report of a registry with risks, a checker with
\* issues and a builder with a note and a system name of its own.
C19_Witness ==
    /\ call.op = "build_dict"
    /\ ret.err = "none"
    /\ builder.risk_registry = TheRegistry
    /\ risks # <<>>
    /\ ret.val.risks # None
    /\ issues # <<>>
    /\ builder.manual_notes # <<>>
    /\ builder.system_name = "TestSystem"

\* The lines that carry the timestamp of a Markdown render.
GeneratedLines == {"**Generated**: " \o Strftime(now) : now \in Clock}

\* The outcome of a render without its timestamp: a Markdown report with
\* its third line, the Generated line, blanked; a structured report with
\* generated_at blanked; an exception as it is.
WithoutTimestamp(op, r) ==
    IF r.err # "none" THEN r
    ELSE IF op = "build_markdown"
    THEN Return([r.val EXCEPT ![3] = ""])
    ELSE Return([r.val EXCEPT !.generated_at = ""])

SameButTimestamp(op, a, b) == WithoutTimestamp(op, a) = WithoutTimestamp(op, b)

\* The outcome of a render of the state's builder, registry and checker at
\* the time now.
RenderAt(op, self, reg, iss, now) ==
    IF op = "build_markdown" THEN Return(build_markdown(self, reg, iss, now))
    ELSE build_dict(self, reg, iss, now)

\* C20: the outcome of a render step is, but for the timestamp, the outcome
\* of the same render of the same system info, registry contents (the risks
\* in their stored order), checker issues and notes at any other time; in
\* particular two renders of the same kind in a row, between which nothing
\* has changed, differ in the timestamp at most.
C20_RenderDeterministic ==
    [][call'.op \in RenderOps
         => /\ call'.op = "build_markdown" => ret'.val[3] \in GeneratedLines
            /\ \A now \in Clock :
                  SameButTimestamp(call'.op, ret',
                                   RenderAt(call'.op, builder', risks', issues', now))
            /\ (call.op = call'.op /\ builder' = builder /\ risks' = risks /\ issues' = issues)
                  => SameButTimestamp(call'.op, ret, ret')
       ]_vars

\* A Markdown render made at another time than the Markdown render before
\* it, of a registry with risks, a checker with issues and a note.
C20_Witness ==
    /\ call.op = "build_markdown"
    /\ call.now = 2
    /\ \E i \in DOMAIN ret.val : ret.val[i] = "**Generated**: " \o Strftime(2)
    /\ builder.risk_registry = TheRegistry
    /\ risks # <<>>
    /\ builder.policy_checker = TheChecker
    /\ issues # <<>>
    /\ builder.manual_notes # <<>>

\* The risks of the registry with severity critical or high.
HighPriority == {risks[i].risk : i \in {j \in DOMAIN risks : risks[j].risk.severity.v \in {"critical", "high"}}}

\* The risk a table row shows.
RowRisk(line) == CHOOSE r \in HighPriority : RiskRow(r) = line

\* C21: in every state after build_markdown: when a registry is bound and
\* holds a critical or high risk, the heading of the high priority table
\* occurs once, followed by an empty line, the two lines of the table head,
\* one row for each critical or high risk and no other row, and an empty
\* line; no high risk's row stands before a critical risk's row, and among
\* rows of one severity the ids ascend in the order of str; otherwise
\* neither the heading nor the table head occurs.
C21_HighPriorityTable ==
    call.op = "build_markdown"
        => LET md == ret.val
               k == Cardinality(HighPriority)
           IN  IF builder.risk_registry # None /\ HighPriority # {}
               THEN /\ Cardinality(LinesAt(md, "### High Priority Risks")) = 1
                    /\ \A h \in LinesAt(md, "### High Priority Risks") :
                          /\ h + 4 + k <= Len(md)
                          /\ md[h + 1] = ""
                          /\ md[h + 2] = "| ID | Title | Severity | Status | Owner |"
                          /\ md[h + 3] = "|---|---|---|---|---|"
                          /\ md[h + 4 + k] = ""
                          /\ \A r \in HighPriority :
                                Cardinality({p \in (h + 4)..(h + 3 + k) : md[p] = RiskRow(r)}) = 1
                          /\ \A p, q \in (h + 4)..(h + 3 + k) :
                                p < q =>
                                   LET a == RowRisk(md[p])
                                       b == RowRisk(md[q])
                                   IN  /\ ~(a.severity.v = "high" /\ b.severity.v = "critical")
                                       /\ a.severity.v = b.severity.v
                                            => StrRank(a.id) < StrRank(b.id)
                    /\ \A r \in HighPriority : Cardinality(LinesAt(md, RiskRow(r))) = 1
               ELSE /\ LinesAt(md, "### High Priority Risks") = {}
                    /\ LinesAt(md, "| ID | Title | Severity | Status | Owner |") = {}

\* A table of three rows for a registry that stored a high risk first and
\* the critical risks R2 and R10 after it.
C21_Witness ==
    /\ call.op = "build_markdown"
    /\ builder.risk_registry = TheRegistry
    /\ Len(risks) = 3
    /\ risks[1].risk.severity.v = "high"
    /\ risks[2].key = "R2" /\ risks[2].risk.severity.v = "critical"
    /\ risks[3].key = "R10" /\ risks[3].risk.severity.v = "critical"
    /\ LinesAt(ret.val, "### High Priority Risks") # {}

\* The lines of a report from position start up to the next empty line.
Block(md, start) == {md[p] : p \in {q \in start..Len(md) : \A x \in start..q : md[x] # ""}}

\* The block that begins off lines after the line given, when that line occurs.
BlockAfter(md, line, off) ==
    IF LinesAt(md, line) = {} THEN {} ELSE Block(md, HeaderAt(md, line) + off)

\* The table row and the bullet that the fields of a structured report give.
RowOfDetail(x) ==
    "| " \o x.id \o " | " \o x.title \o " | " \o x.severity \o " | " \o x.status \o " | "
        \o (IF x.owner # "" THEN x.owner ELSE "Unassigned") \o " |"

CountLinesOf(table) ==
    {"- " \o StrTitle(ReplaceUnderscore(k)) \o ": " \o ToString(table[k]) : k \in DOMAIN table}

IssueLinesOf(iss, severity) ==
    {"- **" \o iss[i].section \o "**: " \o iss[i].message :
        i \in {j \in DOMAIN iss : iss[j].severity = severity}}

PolicyLines == {"**Policy Compliance**: Passed", "**Policy Compliance**: Failed",
                "**Status**: Failed", "**Status**: Passed with warnings"}

\* C22: in every state after build_dict the call has returned a record that
\* carries what the Markdown render of the same state shows: the system name
\* and version; every row of the high priority table as an entry of
\* risks.details; the total and every severity and category count in
\* risks.summary; every listed error and warning in policy.issues; the
\* pass/fail status in policy.summary; every note in notes. risks is null
\* exactly when no registry is bound, and policy is null exactly when the
\* Markdown has no line about the policy.
C22_DictCoversMarkdown ==
    call.op = "build_dict"
        => /\ ret.err = "none"
           /\ LET d == ret.val
                  md == build_markdown(builder, risks, issues, call.now)
                  details == {d.risks.details[i] : i \in DOMAIN d.risks.details}
              IN  /\ md[1] = "# Trust Report: " \o d.system.name
                  /\ md[2] = "**Version**: " \o d.system.version
                  /\ d.risks = None <=> builder.risk_registry = None
                  /\ d.risks = None => LinesAt(md, "## Risk Assessment") = {}
                  /\ d.risks # None
                       => /\ BlockAfter(md, "|---|---|---|---|---|", 1)
                                \subseteq {RowOfDetail(x) : x \in details}
                          /\ BlockAfter(md, "**By Severity:**", 1)
                                \subseteq CountLinesOf(d.risks.summary.by_severity)
                          /\ BlockAfter(md, "**By Category:**", 1)
                                \subseteq CountLinesOf(d.risks.summary.by_category)
                          /\ LinesAt(md, "Total Risks: " \o ToString(d.risks.summary.total)) # {}
                  /\ d.policy = None <=> \A l \in PolicyLines \cup {"## Policy Compliance"} :
                                            LinesAt(md, l) = {}
                  /\ d.policy # None
                       => /\ BlockAfter(md, "### Errors", 2) \subseteq IssueLinesOf(d.policy.issues, "error")
                          /\ BlockAfter(md, "### Warnings", 2)
                                \subseteq IssueLinesOf(d.policy.issues, "warning")
                          /\ LinesAt(md, "**Status**: Failed") # {} <=> ~d.policy.summary.passed
                          /\ LinesAt(md, "- Errors: " \o ToString(d.policy.summary.errors)) # {}
                          /\ LinesAt(md, "- Warnings: " \o ToString(d.policy.summary.warnings)) # {}
                  /\ BlockAfter(md, "## Additional Notes", 2)
                        = {"- " \o d.notes[i] : i \in DOMAIN d.notes}

----------------------------------------------------------------------------
\* Properties of the uncertainty tagger.

\* The five tagging functions, in the order of ALL_TAGS.
TagWith(k, t) ==
    CASE k = 1 -> tag_fact(t)
      [] k = 2 -> tag_estimate(t)
      [] k = 3 -> tag_unknown(t)
      [] k = 4 -> tag_assumption(t)
      [] k = 5 -> tag_speculation(t)

\* The text that tagging function k was applied to, for a text it produced.
Untagged(k, tagged) == SubSeq(tagged, Len(ALL_TAGS[k]) + 2, Len(tagged))

\* Whitespace normalisation: runs collapsed to one space, the ends removed.
Normalized(t) == StrStrip(CollapseWhitespace(t, 1))

MarkerFree(t) == \A k \in DOMAIN ALL_TAGS : StrCount(t, 1, ALL_TAGS[k]) = 0

\* C23 as stated: for any text t and each of the five tagging functions,
\* strip_tags of the tagged t is t up to whitespace normalisation.
C23_RoundTripAnyText ==
    call.op = "strip_tags" =>
        \A k \in DOMAIN ALL_TAGS :
            LET t == Untagged(k, call.text)
            IN  call.text = TagWith(k, t) => ret.val = Normalized(t)

\* C23, amended: for any text t and each of the five tagging functions,
\* strip_tags of the tagged t equals strip_tags of t, and it equals t up to
\* whitespace normalisation when t contains none of the five markers.
C23_RoundTrip ==
    call.op = "strip_tags" =>
        \A k \in DOMAIN ALL_TAGS :
            LET t == Untagged(k, call.text)
            IN  call.text = TagWith(k, t) =>
                    /\ ret.val = strip_tags(t)
                    /\ MarkerFree(t) => ret.val = Normalized(t)

\* strip_tags has run on the result of tag_estimate for a marker-free text
\* with runs of whitespace inside and around it.
C23_Witness ==
    /\ call.op = "strip_tags"
    /\ call.text = tag_estimate(<<" ", " ", "a", " ", "\n", " ", "b", " ">>)
    /\ ret.val = <<"a", " ", "b">>

\* The entries C24 describes, from position i on: one per marker occurrence,
\* the content being the characters from the end of the marker to the next
\* marker or the end of the text, trimmed.
NextMarker(s, j) ==
    IF \E e \in j..Len(s) : MarkerAt(s, e) # 0
    THEN CHOOSE e \in j..Len(s) :
            /\ MarkerAt(s, e) # 0
            /\ \A d \in j..(e - 1) : MarkerAt(s, d) = 0
    ELSE Len(s) + 1

RECURSIVE EntriesFrom(_, _)
EntriesFrom(s, i) ==
    IF i > Len(s) THEN <<>>
    ELSE LET k == MarkerAt(s, i)
             j == i + Len(ALL_TAGS[k])
             e == NextMarker(s, j)
         IN  IF k = 0 THEN EntriesFrom(s, i + 1)
             ELSE <<[tag |-> ALL_TAGS[k], content |-> StrStrip(SubSeq(s, j, e - 1))]>>
                  \o EntriesFrom(s, e)

\* C24: detect_tags returns, in text order, one entry per marker occurrence,
\* its content the trimmed characters from the marker to the next marker or
\* the end of the text; a "[" that starts no marker does not end the content.
C24_EntryPerMarker ==
    call.op = "detect_tags" => ret.val = EntriesFrom(call.text, 1)

\* C25: the result of strip_tags contains none of the five markers, so every
\* count of count_tags on it is zero and strip_tags maps it to itself.
C25_StrippedHasNoMarker ==
    call.op = "strip_tags" =>
        /\ \A k \in DOMAIN ALL_TAGS : count_tags(ret.val)[k] = 0
        /\ strip_tags(ret.val) = ret.val

----------------------------------------------------------------------------
\* Failure atomicity of the registry.

\* C26: when an update_risk call that names several fields raises because an
\* enumeration field has an invalid string, every field of the stored risk
\* (and so the whole map) is as before the call.
C26_UpdateAllOrNothing ==
    [][(/\ call'.op = "update_risk"
        /\ Len(call'.kwargs) > 1
        /\ ret'.err = "ValueError")
       => risks' = risks]_vars

\* C27: when load_from_yaml or load_from_json raises because a record has an
\* out-of-vocabulary enumeration value or lacks a mandatory field, the
\* registry's map is as before the call.
C27_LoadAllOrNothing ==
    [][(/\ call'.op \in {"load_from_yaml", "load_from_json"}
        /\ ret'.err \in {"ValueError", "KeyError"})
       => risks' = risks]_vars

----------------------------------------------------------------------------
\* The builder next to a registry and a checker in use.

\* The number of risks of the registry with the severity given.
SeverityCount(severity) ==
    Cardinality({i \in DOMAIN risks : risks[i].risk.severity.v = severity})

\* C28: in every state after build_markdown the report shows the registry
\* and the checker's issue list as they are in that state, whatever was done
\* to them after they were handed to the builder: with a registry bound, the
\* total and the critical and high counts of the registry's present risks
\* and exactly the rows of its present critical and high risks; with a
\* checker bound that has issues, its present error and warning counts and
\* exactly the lines of its present errors and warnings.
C28_RenderReadsPresentState ==
    call.op = "build_markdown"
        => LET md == ret.val
           IN  /\ Bound(builder.risk_registry)
                    => /\ LinesAt(md, "**Total Risks Identified**: " \o ToString(Len(risks))) # {}
                       /\ LinesAt(md, "- Critical: " \o ToString(SeverityCount("critical"))) # {}
                       /\ LinesAt(md, "- High: " \o ToString(SeverityCount("high"))) # {}
                       /\ BlockAfter(md, "|---|---|---|---|---|", 1)
                             = {RiskRow(r) : r \in HighPriority}
               /\ Bound(builder.policy_checker) /\ issues # <<>>
                    => /\ LinesAt(md, "- Errors: "
                             \o ToString(Cardinality(PositionsOfSeverity(issues, "error")))) # {}
                       /\ LinesAt(md, "- Warnings: "
                             \o ToString(Cardinality(PositionsOfSeverity(issues, "warning")))) # {}
                       /\ BlockAfter(md, "### Errors", 2) = IssueLinesOf(issues, "error")
                       /\ BlockAfter(md, "### Warnings", 2) = IssueLinesOf(issues, "warning")

\* A report built after set_risk_registry, add_risk of a high risk and an
\* update_risk that gave it a title and made it critical: the row shows the
\* updated risk.
C28_Witness ==
    /\ call.op = "build_markdown"
    /\ builder.risk_registry = TheRegistry
    /\ nops = 3
    /\ DictKeys(risks) = {"R1"}
    /\ risks[1].risk.title = "T3"
    /\ LinesAt(ret.val, "| R1 | T3 | critical | mitigating | Unassigned |") # {}
    /\ LinesAt(ret.val, "- Critical: 1") # {}

----------------------------------------------------------------------------
\* The recommendations of a report.

\* The items of the recommendations list of a report.
Recommendations(md) == BlockAfter(md, "## Recommendations", 2)

UrgentItems ==
    {"- **URGENT**: Address " \o ToString(n) \o " critical risk(s) before deployment" :
        n \in 0..Len(risks)}

MoveItems ==
    {"- Move " \o ToString(n) \o " identified risk(s) to active mitigation" : n \in 0..Len(risks)}

FixItems ==
    {"- Fix " \o ToString(n) \o " policy error(s) before proceeding" : n \in 0..Len(issues)}

ReviewItems == {"- High number of policy warnings - consider comprehensive policy review"}

DefaultItems ==
    {"- No urgent recommendations at this time", "- Continue monitoring and regular risk reviews"}

IdentifiedCount == Cardinality({i \in DOMAIN risks : risks[i].risk.status.v = "identified"})

\* C29: in every state after build_markdown the recommendations list is not
\* empty and holds nothing but items of the four rules and the two default
\* items; it has an urgent item iff a registry is bound and has a critical
\* risk, a move-to-mitigation item iff a registry is bound and has a risk
\* with status identified, a fix-errors item iff a checker is bound and has
\* an error, a policy-review item iff a checker is bound and has more than
\* five warnings; each item names the present count; both default items are
\* there when no rule fires and neither is there otherwise.
C29_RecommendationRules ==
    call.op = "build_markdown"
        => LET recs == Recommendations(ret.val)
               errors == Cardinality(PositionsOfSeverity(issues, "error"))
               warnings == Cardinality(PositionsOfSeverity(issues, "warning"))
               urgent == Bound(builder.risk_registry) /\ SeverityCount("critical") >= 1
               move == Bound(builder.risk_registry) /\ IdentifiedCount >= 1
               fix == Bound(builder.policy_checker) /\ errors >= 1
               review == Bound(builder.policy_checker) /\ warnings > 5
           IN  /\ recs # {}
               /\ recs \subseteq UrgentItems \cup MoveItems \cup FixItems \cup ReviewItems
                                    \cup DefaultItems
               /\ recs \cap UrgentItems
                    = IF urgent
                      THEN {"- **URGENT**: Address " \o ToString(SeverityCount("critical"))
                                \o " critical risk(s) before deployment"}
                      ELSE {}
               /\ recs \cap MoveItems
                    = IF move
                      THEN {"- Move " \o ToString(IdentifiedCount)
                                \o " identified risk(s) to active mitigation"}
                      ELSE {}
               /\ recs \cap FixItems
                    = IF fix
                      THEN {"- Fix " \o ToString(errors) \o " policy error(s) before proceeding"}
                      ELSE {}
               /\ recs \cap ReviewItems = IF review THEN ReviewItems ELSE {}
               /\ recs \cap DefaultItems
                    = IF urgent \/ move \/ fix \/ review THEN {} ELSE DefaultItems

\* A report for a registry with a critical risk of status identified and a
\* checker with six errors and six warnings: all four rules fire.
C29_Witness ==
    /\ call.op = "build_markdown"
    /\ Bound(builder.risk_registry) /\ Bound(builder.policy_checker)
    /\ SeverityCount("critical") = 1 /\ IdentifiedCount = 1
    /\ Cardinality(PositionsOfSeverity(issues, "warning")) = 6
    /\ Recommendations(ret.val)
         = {"- **URGENT**: Address 1 critical risk(s) before deployment",
            "- Move 1 identified risk(s) to active mitigation",
            "- Fix 6 policy error(s) before proceeding",
            "- High number of policy warnings - consider comprehensive policy review"}

----------------------------------------------------------------------------
\* Properties of the example Level 2 agent.

\* C30: before and after every step of grant_consent, revoke_consent,
\* remember, recall, forget and forget_all the memory is non-empty only if
\* consent is granted; a remember made without consent leaves the memory as it was,
\* empty, and returns success False; after revoke_consent the memory is empty.
C30_ConsentGatesMemory ==
    [][/\ agent.memory # <<>> => agent.user_consent
       /\ agent'.memory # <<>> => agent'.user_consent
       /\ (call'.op = "remember" /\ ~agent.user_consent)
             => /\ agent'.memory = agent.memory
                /\ agent'.memory = <<>>
                /\ ret' = Return([success |-> FALSE])
       /\ call'.op = "revoke_consent" => agent'.memory = <<>> /\ ~agent'.user_consent]_vars

\* Consent was granted, a value remembered and consent revoked: the memory
\* is empty again.
C30_Witness ==
    /\ call.op = "revoke_consent"
    /\ agent.audit_log = <<"consent_granted", "memory_store", "consent_revoked">>
    /\ agent.memory = <<>>
    /\ ~agent.user_consent

====
